---- MODULE Spec2Model ----
(***************************************************************************)
(* A model of the RAG helper library: the error taxonomy, the input        *)
(* validators, the three collaborating services (embedding engine,         *)
(* sqlite vector store, relational document store) and the orchestrating   *)
(* modules RAGModule, HybridRAGModule and PostgresHybridRAGModule.          *)
(*                                                                         *)
(* Every public method of a module is one action: the whole promise chain  *)
(* of the handler, with the outcome of each driver call drawn from a small  *)
(* set.  The variable `last` records what the most recent call observed     *)
(* and returned; `closedOnce` remembers a successful close().               *)
(***************************************************************************)
EXTENDS Integers, Sequences, FiniteSets, Bags, TLC

\* ------------------------------------------------------------------------
\* JavaScript values of request fields.  A value is [t, v]: t is the result
\* of typeof, v a tuple: the characters of a string, <<h>> for the number
\* h/2 (so 5.5 is <<11>>), <<>> for undefined.
\* ------------------------------------------------------------------------
Undef == [t |-> "undefined", v |-> <<>>]

Str(s) == [t |-> "string", v |-> s]

Num(h) == [t |-> "number", v |-> <<h>>]

\* An integer n as a JavaScript number.
Int2Num(n) == Num(2 * n)

\* Characters: letters, a digit, the separators of the table-name grammar, a
\* character outside it, the space (whitespace, removed by trim) and \x01 (a
\* control character, removed by sanitizeText but not by trim).
Letters == {"a", "b", "t", "j", "o", "i", "n", "J", "O", "I", "N"}

Digits == {"1"}

Space == " "

Ctrl == "\\x01"

\* ------------------------------------------------------------------------
\* errors/index.ts
\* ------------------------------------------------------------------------
ErrorCodes ==
  {"MODEL_LOAD_FAILED", "DATABASE_CONNECTION_FAILED", "TABLE_CREATION_FAILED",
   "EMBEDDING_FAILED", "VECTOR_SAVE_FAILED", "SEARCH_FAILED", "INVALID_INPUT"}

\* No error: the promise resolved.
NoErr == [kind |-> "none", msg |-> <<>>, cause |-> <<>>]

\* new RAGError(message, code, cause?): cause is <<>> or <<the error>>.
RAGError(msg, code, cause) == [kind |-> code, msg |-> msg, cause |-> cause]

\* An error of the driver or the runtime: new Error(..), a TypeError.
Foreign(name, msg) == [kind |-> name, msg |-> <<msg>>, cause |-> <<>>]

\* error instanceof RAGError
IsRAGError(e) == e.kind \in ErrorCodes

\* A catch block that wraps a foreign error without attaching it as cause.
WrapWithoutCause(e, prefix, code) ==
  IF IsRAGError(e) THEN e ELSE RAGError(<<prefix>> \o e.msg, code, <<>>)

\* A catch block without the instanceof test: it wraps a RAGError too.
WrapTaxonomyToo(e, prefix, code) == RAGError(<<prefix>> \o e.msg, code, <<e>>)

\* A catch block that tags a foreign error as a failure of the embedding
\* subsystem, whatever the operation.
WrapAsEmbeddingFailure(e, prefix, code) ==
  IF IsRAGError(e) THEN e ELSE RAGError(<<prefix>> \o e.msg, "EMBEDDING_FAILED", <<e>>)

\* The catch block shared by every method of the three modules:
\*   if (error instanceof RAGError) throw error;
\*   throw new RAGError(`${prefix}: ${error.message}`, code, error)
RethrowOrWrap(e, prefix, code) ==
  IF IsRAGError(e) THEN e ELSE RAGError(<<prefix>> \o e.msg, code, <<e>>)

\* The catch block of the methods that wrap whatever they caught:
\*   throw new RAGError(`${prefix}: ${error.message}`, code, error)
WrapAlways(e, prefix, code) == RAGError(<<prefix>> \o e.msg, code, <<e>>)

\* ------------------------------------------------------------------------
\* utils/validation.ts (InputValidator).  A validator returns [err, val]:
\* err is NoErr and val the returned value, or err is the RAGError thrown.
\* ------------------------------------------------------------------------
MAX_TABLE_NAME_LENGTH == 64

MAX_TEXT_LENGTH == 1000000

MAX_SEARCH_QUANTITY == 1000

MIN_SEARCH_QUANTITY == 1

Invalid(msg) == [err |-> RAGError(msg, "INVALID_INPUT", <<>>), val |-> Undef]

Valid(v) == [err |-> NoErr, val |-> v]

RECURSIVE TrimStart(_)
TrimStart(s) ==
  IF s # <<>> /\ Head(s) = Space THEN TrimStart(Tail(s)) ELSE s

RECURSIVE TrimEnd(_)
TrimEnd(s) ==
  IF s # <<>> /\ s[Len(s)] = Space THEN TrimEnd(SubSeq(s, 1, Len(s) - 1)) ELSE s

\* String.prototype.trim on the characters of the model.
Trim(s) == TrimEnd(TrimStart(s))

\* Number.isInteger on a number given in halves.
IsInteger(h) == h % 2 = 0

\* validateText(text, fieldName)
validateText(text, fieldName) ==
  IF text.t # "string" THEN Invalid(<<fieldName, " must be a string">>)
  ELSE IF Len(text.v) = 0 THEN Invalid(<<fieldName, " cannot be empty">>)
  ELSE IF Len(Trim(text.v)) = 0 THEN Invalid(<<fieldName, " cannot be empty">>)
  ELSE IF Len(Trim(text.v)) > MAX_TEXT_LENGTH
    THEN Invalid(<<fieldName, " exceeds maximum length">>)
  ELSE Valid(Str(Trim(text.v)))

\* sanitizeText(text): text.replace(/[\x00-\x08\x0B\x0C\x0E-\x1F\x7F]/g, '')
sanitizeText(text) == Str(SelectSeq(text.v, LAMBDA c : c # Ctrl))

\* TABLE_NAME_REGEX = /^[a-zA-Z][a-zA-Z0-9_-]*$/
TABLE_NAME_REGEX(s) ==
  /\ s # <<>>
  /\ s[1] \in Letters
  /\ \A k \in 2..Len(s) : s[k] \in Letters \cup Digits \cup {"_", "-"}

\* String.prototype.toUpperCase on the characters of the model.
UpperChar(c) ==
  CASE c = "a" -> "A" [] c = "b" -> "B" [] c = "t" -> "T" [] c = "j" -> "J"
    [] c = "o" -> "O" [] c = "i" -> "I" [] c = "n" -> "N" [] OTHER -> c

ToUpperCase(s) == [k \in 1..Len(s) |-> UpperChar(s[k])]

\* The reserved words the characters of the model can spell.
reservedWords == {<<"J", "O", "I", "N">>}

\* A validateTableName that tests the name as given, without trimming it.
validateTableNameUntrimmed(tablename) ==
  IF tablename.t # "string" THEN Invalid(<<"Table name must be a string">>)
  ELSE IF Len(tablename.v) = 0 THEN Invalid(<<"Table name cannot be empty">>)
  ELSE IF Len(tablename.v) > MAX_TABLE_NAME_LENGTH
    THEN Invalid(<<"Invalid table name format">>)
  ELSE IF ~TABLE_NAME_REGEX(tablename.v)
    THEN Invalid(<<"Invalid table name format">>)
  ELSE IF ToUpperCase(tablename.v) \in reservedWords
    THEN Invalid(<<"Table name '", "' is a reserved SQL keyword">>)
  ELSE Valid(tablename)

\* validateTableName(tablename)
validateTableName(tablename) ==
  IF tablename.t # "string" THEN Invalid(<<"Table name must be a string">>)
  ELSE IF Len(tablename.v) = 0 THEN Invalid(<<"Table name cannot be empty">>)
  ELSE IF Len(Trim(tablename.v)) = 0
    THEN Invalid(<<"Table name cannot be empty or whitespace only">>)
  ELSE IF Len(Trim(tablename.v)) > MAX_TABLE_NAME_LENGTH
    THEN Invalid(<<"Invalid table name format">>)
  ELSE IF ~TABLE_NAME_REGEX(Trim(tablename.v))
    THEN Invalid(<<"Invalid table name format">>)
  ELSE IF ToUpperCase(Trim(tablename.v)) \in reservedWords
    THEN Invalid(<<"Table name '", "' is a reserved SQL keyword">>)
  ELSE Valid(Str(Trim(tablename.v)))

\* validateId(id).  Every number of the model is below
\* Number.MAX_SAFE_INTEGER, so that last check of the code never fires here.
validateId(id) ==
  IF id.t # "number" THEN Invalid(<<"ID must be a number">>)
  ELSE IF ~IsInteger(id.v[1]) THEN Invalid(<<"ID must be a non-negative integer">>)
  ELSE IF id.v[1] < 0 THEN Invalid(<<"ID must be a non-negative integer">>)
  ELSE Valid(id)

\* validateSearchQuantity(qty)
validateSearchQuantity(qty) ==
  IF qty.t # "number" THEN Invalid(<<"Quantity must be a number">>)
  ELSE IF ~IsInteger(qty.v[1]) THEN Invalid(<<"Quantity must be a positive integer">>)
  ELSE IF qty.v[1] < 2 * MIN_SEARCH_QUANTITY
    THEN Invalid(<<"Quantity must be a positive integer">>)
  ELSE IF qty.v[1] > 2 * MAX_SEARCH_QUANTITY
    THEN Invalid(<<"Quantity cannot exceed 1000 results">>)
  ELSE Valid(qty)

\* The value of an integer JavaScript number.
NumVal(x) == x.v[1] \div 2

\* ------------------------------------------------------------------------
\* Finite maps (a collection, a file of collections).
\* ------------------------------------------------------------------------
EmptyMap == [x \in {} |-> x]

Put(f, k, v) == [x \in DOMAIN f \cup {k} |-> IF x = k THEN v ELSE f[x]]

Remove(f, k) == [x \in DOMAIN f \ {k} |-> f[x]]

\* ------------------------------------------------------------------------
\* What the driver under a service call does, chosen by the environment:
\*   "ok"      the driver call succeeds;
\*   "error"   the driver reports an error (callback err, rejected promise);
\*   "error2"  the first driver call of the method succeeds, the second
\*             reports an error (methods with two driver calls);
\*   "throws"  the collaborator rejects with an error that is not a
\*             RAGError, as the doubles of __tests__/index.test.ts do.
\* A service method returns [st, err, val] (and the file, for a store): the
\* service's fields afterwards, the error it rejected with or NoErr, and the
\* value it resolved with.
\* ------------------------------------------------------------------------
DriverError == Foreign("Error", "driver error")

Thrown == Foreign("Error", "collaborator error")

\* The error of the driver for a statement that names a table that does not
\* exist.
NoSuchTable == Foreign("Error", "no such table")

\* The error of a statement that did not succeed: the driver's answer to a
\* missing table when nothing else went wrong, the driver's error otherwise.
StatementError(out) == IF out = "ok" THEN NoSuchTable ELSE DriverError

\* The vector the engine computes for a string: the string it embeds.
Embedding(s) == [of |-> s]

NoVal == Undef

\* ------------------------------------------------------------------------
\* services/embedding.ts (NoMicEmbeddingService, the process-wide singleton)
\* fields: initialized, model (non-null), embeddingContext (non-null),
\* modelPath ("" until the first initialize).
\* ------------------------------------------------------------------------
EmbNew == [initialized |-> FALSE, model |-> FALSE, ctx |-> FALSE, modelPath |-> ""]

\* NoMicEmbeddingService.initialize(modelPath)
EmbInitialize(e, modelPath, out) ==
  IF e.initialized /\ e.modelPath = modelPath
    THEN [st |-> e, err |-> NoErr, val |-> NoVal]
  ELSE IF out = "throws"
    THEN [st |-> e, err |-> Thrown, val |-> NoVal]
  ELSE IF out = "ok"
    THEN [st |-> [initialized |-> TRUE, model |-> TRUE, ctx |-> TRUE,
                  modelPath |-> modelPath],
          err |-> NoErr, val |-> NoVal]
  ELSE [st |-> [initialized |-> FALSE, model |-> FALSE, ctx |-> FALSE,
                modelPath |-> modelPath],
        err |-> WrapAlways(DriverError, "Failed to initialize embedding model: ",
                           "MODEL_LOAD_FAILED"),
        val |-> NoVal]

\* NoMicEmbeddingService.embed(text): text is a string value.
EmbEmbed(e, text, out) ==
  IF ~e.initialized \/ ~e.ctx
    THEN [st |-> e, val |-> NoVal,
          err |-> RAGError(<<"Embedding service not initialized">>,
                           "MODEL_LOAD_FAILED", <<>>)]
  ELSE IF text.v = <<>> \/ Len(Trim(text.v)) = 0
    THEN [st |-> e, val |-> NoVal,
          err |-> RAGError(<<"Text input cannot be empty">>, "INVALID_INPUT", <<>>)]
  ELSE IF out = "throws"
    THEN [st |-> e, err |-> Thrown, val |-> NoVal]
  ELSE IF out = "ok"
    THEN [st |-> e, err |-> NoErr, val |-> Embedding(text.v)]
  ELSE [st |-> e, val |-> NoVal,
        err |-> WrapAlways(DriverError, "Failed to generate embedding: ",
                           "EMBEDDING_FAILED")]

\* NoMicEmbeddingService.close(): "error" fails the first dispose that runs,
\* "error2" the model's dispose (after the context's, if any, succeeded).
EmbClose(e, out) ==
  LET failed == WrapAlways(DriverError, "Failed to close embedding service: ",
                           "MODEL_LOAD_FAILED")
  IN IF out = "throws" THEN [st |-> e, err |-> Thrown, val |-> NoVal]
     ELSE IF e.ctx /\ out = "error"
       THEN [st |-> e, err |-> failed, val |-> NoVal]
     ELSE IF e.model /\ (out = "error2" \/ (~e.ctx /\ out = "error"))
       THEN [st |-> [e EXCEPT !.ctx = FALSE], err |-> failed, val |-> NoVal]
     ELSE [st |-> [e EXCEPT !.ctx = FALSE, !.model = FALSE, !.initialized = FALSE],
           err |-> NoErr, val |-> NoVal]

\* ------------------------------------------------------------------------
\* services/database.ts (SQLiteVectorDatabase), one per module instance.
\* fields: db (non-null), initialized, databasePath.  The file it opens is a
\* map from the name of a vec0 table to the table: a map from id to vector.
\* ------------------------------------------------------------------------
VdbNew == [db |-> FALSE, initialized |-> FALSE, databasePath |-> ""]

\* SQLiteVectorDatabase.isValidTableName(tablename)
isValidTableName(tablename) ==
  /\ tablename.t = "string"
  /\ TABLE_NAME_REGEX(tablename.v)
  /\ Len(tablename.v) <= 64

NotInitializedDb ==
  RAGError(<<"Database not initialized">>, "DATABASE_CONNECTION_FAILED", <<>>)

\* SQLiteVectorDatabase.initialize(databasePath): "error" fails the open,
\* "error2" the load of the sqlite-vec extension.  Both reject with a
\* RAGError, which the method's own catch wraps in a second RAGError.
VdbInitialize(d, databasePath, out) ==
  IF d.initialized /\ d.databasePath = databasePath
    THEN [st |-> d, err |-> NoErr, val |-> NoVal]
  ELSE IF out = "throws"
    THEN [st |-> d, err |-> Thrown, val |-> NoVal]
  ELSE IF out = "ok"
    THEN [st |-> [db |-> TRUE, initialized |-> TRUE, databasePath |-> databasePath],
          err |-> NoErr, val |-> NoVal]
  ELSE [st |-> [db |-> TRUE, initialized |-> FALSE, databasePath |-> databasePath],
        val |-> NoVal,
        err |-> WrapAlways(
                  WrapAlways(DriverError,
                             IF out = "error" THEN "Failed to connect to database: "
                             ELSE "Failed to load sqlite-vec extension: ",
                             "DATABASE_CONNECTION_FAILED"),
                  "Failed to initialize database: ", "DATABASE_CONNECTION_FAILED")]

\* SQLiteVectorDatabase.createTableIfNotExists(tablename)
VdbCreateTable(d, file, tablename, out) ==
  IF ~d.initialized \/ ~d.db
    THEN [file |-> file, err |-> NotInitializedDb, val |-> NoVal]
  ELSE IF ~isValidTableName(tablename)
    THEN [file |-> file, val |-> NoVal,
          err |-> RAGError(<<"Invalid table name">>, "INVALID_INPUT", <<>>)]
  ELSE IF out = "throws"
    THEN [file |-> file, err |-> Thrown, val |-> NoVal]
  ELSE IF out = "ok"
    THEN [file |-> IF tablename.v \in DOMAIN file THEN file
                   ELSE Put(file, tablename.v, EmptyMap),
          err |-> NoErr, val |-> NoVal]
  ELSE [file |-> file, val |-> NoVal,
        err |-> WrapAlways(DriverError, "Failed to create table: ",
                           "TABLE_CREATION_FAILED")]

\* An insertVector whose statement is INSERT OR IGNORE: the row of an id
\* that has one is kept.
VdbInsertIgnore(d, file, tablename, id, vector, out) ==
  IF ~d.initialized \/ ~d.db
    THEN [file |-> file, err |-> NotInitializedDb, val |-> NoVal]
  ELSE IF out = "ok" /\ tablename.v \in DOMAIN file
    THEN [file |-> IF id \in DOMAIN file[tablename.v] THEN file
                   ELSE Put(file, tablename.v, Put(file[tablename.v], id, vector)),
          err |-> NoErr, val |-> TRUE]
  ELSE [file |-> file, val |-> NoVal,
        err |-> WrapAlways(StatementError(out), "Failed to insert vector: ",
                           "VECTOR_SAVE_FAILED")]

\* An insertVector whose statement writes the row and then reports the
\* error of the driver.
VdbInsertWrittenThenRejected(d, file, tablename, id, vector, out) ==
  IF ~d.initialized \/ ~d.db
    THEN [file |-> file, err |-> NotInitializedDb, val |-> NoVal]
  ELSE IF out = "ok" /\ tablename.v \in DOMAIN file
    THEN [file |-> Put(file, tablename.v, Put(file[tablename.v], id, vector)),
          err |-> NoErr, val |-> TRUE]
  ELSE [file |-> IF tablename.v \in DOMAIN file
                   THEN Put(file, tablename.v, Put(file[tablename.v], id, vector))
                   ELSE file,
        val |-> NoVal,
        err |-> WrapAlways(StatementError(out), "Failed to insert vector: ",
                           "VECTOR_SAVE_FAILED")]

\* SQLiteVectorDatabase.insertVector(tablename, id, vector): INSERT OR
\* REPLACE; the statement fails when the table does not exist.  "false" is
\* a collaborator that resolves with false, as the DatabaseService interface
\* allows and the double of __tests__/index.test.ts does.
VdbInsertVector(d, file, tablename, id, vector, out) ==
  IF ~d.initialized \/ ~d.db
    THEN [file |-> file, err |-> NotInitializedDb, val |-> NoVal]
  ELSE IF ~isValidTableName(tablename)
    THEN [file |-> file, val |-> NoVal,
          err |-> RAGError(<<"Invalid table name">>, "INVALID_INPUT", <<>>)]
  ELSE IF out = "throws"
    THEN [file |-> file, err |-> Thrown, val |-> NoVal]
  ELSE IF out = "false"
    THEN [file |-> file, err |-> NoErr, val |-> FALSE]
  ELSE IF out = "ok" /\ tablename.v \in DOMAIN file
    THEN [file |-> Put(file, tablename.v, Put(file[tablename.v], id, vector)),
          err |-> NoErr, val |-> TRUE]
  ELSE [file |-> file, val |-> NoVal,
        err |-> WrapAlways(StatementError(out), "Failed to insert vector: ",
                           "VECTOR_SAVE_FAILED")]

\* vec_distance_cosine of two vectors of the model: 0 for equal vectors,
\* positive otherwise.
Distance(v, w) == IF v = w THEN 0 ELSE 1

\* A ranking that stops one row short of the limit.
RankedShort(table, q, limit) ==
  LET n == IF Cardinality(DOMAIN table) < limit - 1
             THEN Cardinality(DOMAIN table) ELSE limit - 1
  IN { s \in [1..n -> DOMAIN table] :
         /\ \A a, b \in 1..n : a # b => s[a] # s[b]
         /\ \A a, b \in 1..n :
               a < b => Distance(table[s[a]], q) <= Distance(table[s[b]], q) }

\* The id lists SELECT id ... ORDER BY distance ASC LIMIT limit can return:
\* the rows nearest first, rows at the same distance in any order.
Ranked(table, q, limit) ==
  LET n == IF Cardinality(DOMAIN table) < limit
             THEN Cardinality(DOMAIN table) ELSE limit
  IN { s \in [1..n -> DOMAIN table] :
         /\ \A a, b \in 1..n : a # b => s[a] # s[b]
         /\ \A a, b \in 1..n :
               a < b => Distance(table[s[a]], q) <= Distance(table[s[b]], q)
         /\ \A x \in DOMAIN table :
               (\A a \in 1..n : s[a] # x) =>
                  \A a \in 1..n : Distance(table[s[a]], q) <= Distance(table[x], q) }

\* A searchSimilar that answers a table that does not exist with no rows.
VdbSearchSimilarLenient(d, file, tablename, queryVector, limit, out) ==
  IF ~d.initialized \/ ~d.db
    THEN {[err |-> NotInitializedDb, val |-> <<>>]}
  ELSE IF ~isValidTableName(tablename)
    THEN {[err |-> RAGError(<<"Invalid table name">>, "INVALID_INPUT", <<>>),
           val |-> <<>>]}
  ELSE IF out = "throws"
    THEN {[err |-> Thrown, val |-> <<>>]}
  ELSE IF out = "ok" /\ tablename.v \in DOMAIN file
    THEN {[err |-> NoErr, val |-> s] : s \in Ranked(file[tablename.v], queryVector, limit)}
  ELSE IF out = "ok"
    THEN {[err |-> NoErr, val |-> <<>>]}
  ELSE {[err |-> WrapAlways(DriverError, "Failed to search similar vectors: ",
                            "SEARCH_FAILED"),
         val |-> <<>>]}

\* SQLiteVectorDatabase.searchSimilar(tablename, queryVector, limit): the
\* set of results it can return; the statement fails when the table does
\* not exist.
VdbSearchSimilar(d, file, tablename, queryVector, limit, out) ==
  IF ~d.initialized \/ ~d.db
    THEN {[err |-> NotInitializedDb, val |-> <<>>]}
  ELSE IF ~isValidTableName(tablename)
    THEN {[err |-> RAGError(<<"Invalid table name">>, "INVALID_INPUT", <<>>),
           val |-> <<>>]}
  ELSE IF out = "throws"
    THEN {[err |-> Thrown, val |-> <<>>]}
  ELSE IF out = "ok" /\ tablename.v \in DOMAIN file
    THEN {[err |-> NoErr, val |-> s] : s \in Ranked(file[tablename.v], queryVector, limit)}
  ELSE {[err |-> WrapAlways(StatementError(out), "Failed to search similar vectors: ",
                            "SEARCH_FAILED"),
         val |-> <<>>]}

\* SQLiteVectorDatabase.close()
VdbClose(d, out) ==
  IF ~d.db THEN [st |-> d, err |-> NoErr, val |-> NoVal]
  ELSE IF out = "throws" THEN [st |-> d, err |-> Thrown, val |-> NoVal]
  ELSE IF out = "ok"
    THEN [st |-> [d EXCEPT !.db = FALSE, !.initialized = FALSE],
          err |-> NoErr, val |-> NoVal]
  ELSE [st |-> d, val |-> NoVal,
        err |-> WrapAlways(DriverError, "Failed to close database: ",
                           "DATABASE_CONNECTION_FAILED")]

\* ------------------------------------------------------------------------
\* services/vectorSearch.ts (SQLiteVectorSearchService)
\* ------------------------------------------------------------------------
\* validateSearchInputs(tablename, queryVector, limit): the error it throws,
\* or NoErr.  A vector of the model is a non-empty array of numbers.
validateSearchInputs(tablename, limit) ==
  IF tablename.t # "string" \/ tablename.v = <<>> \/ Len(Trim(tablename.v)) = 0
    THEN RAGError(<<"Table name cannot be empty">>, "INVALID_INPUT", <<>>)
  ELSE IF ~TABLE_NAME_REGEX(tablename.v) \/ Len(tablename.v) > 64
    THEN RAGError(<<"Invalid table name format">>, "INVALID_INPUT", <<>>)
  ELSE IF limit.t # "number" \/ ~IsInteger(limit.v[1]) \/ limit.v[1] <= 0
    THEN RAGError(<<"Limit must be a positive integer">>, "INVALID_INPUT", <<>>)
  ELSE IF limit.v[1] > 2 * 1000
    THEN RAGError(<<"Limit cannot exceed 1000 results">>, "INVALID_INPUT", <<>>)
  ELSE NoErr

\* SQLiteVectorSearchService.search(tablename, queryVector, limit, dbService):
\* the set of results it can return.
VectorSearch(d, file, tablename, queryVector, limit, out) ==
  IF validateSearchInputs(tablename, limit) # NoErr
    THEN {[err |-> validateSearchInputs(tablename, limit), val |-> <<>>]}
  ELSE {[err |-> IF r.err = NoErr THEN NoErr
                 ELSE RethrowOrWrap(r.err, "Vector search failed: ", "SEARCH_FAILED"),
         val |-> r.val] :
          r \in VdbSearchSimilar(d, file, tablename, queryVector, NumVal(limit), out)}

\* ------------------------------------------------------------------------
\* services/mysqlDatabase.ts (MySQLDatabase) and services/postgresDatabase.ts
\* (PostgreSQLDatabase), one per hybrid module instance.  fields: pool
\* (non-null), initialized.  The database is a map from the name of a
\* documents table to [next, docs]: the next AUTO_INCREMENT / SERIAL id and
\* the map from id to the content of the row.
\* ------------------------------------------------------------------------
\* The most rows a documents table is given in a behaviour.
MaxDocs == 1

DocNew == [pool |-> FALSE, initialized |-> FALSE]

NotInitializedDoc(variant) ==
  RAGError(<<IF variant = "mysql" THEN "MySQL database not initialized"
             ELSE "PostgreSQL database not initialized">>,
           "DATABASE_CONNECTION_FAILED", <<>>)

\* The statement names a table that exists.
HasTable(tables, tableName) ==
  tableName.t = "string" /\ tableName.v \in DOMAIN tables

\* initialize(): the pool is created before the test connection is tried.
DocInitialize(d, variant, out) ==
  IF d.initialized THEN [st |-> d, err |-> NoErr, val |-> NoVal]
  ELSE IF out = "ok"
    THEN [st |-> [pool |-> TRUE, initialized |-> TRUE], err |-> NoErr, val |-> NoVal]
  ELSE [st |-> [pool |-> TRUE, initialized |-> FALSE], val |-> NoVal,
        err |-> WrapAlways(DriverError,
                  IF variant = "mysql" THEN "Failed to initialize MySQL database: "
                  ELSE "Failed to initialize PostgreSQL database: ",
                  "DATABASE_CONNECTION_FAILED")]

\* createDocumentsTable(tableName): CREATE TABLE IF NOT EXISTS
DocCreateTable(d, tables, tableName, variant, out) ==
  IF ~d.initialized \/ ~d.pool
    THEN [tables |-> tables, err |-> NotInitializedDoc(variant), val |-> NoVal]
  ELSE IF out = "ok" /\ tableName.t = "string"
    THEN [tables |-> IF tableName.v \in DOMAIN tables THEN tables
                     ELSE Put(tables, tableName.v, [next |-> 1, docs |-> EmptyMap]),
          err |-> NoErr, val |-> NoVal]
  ELSE [tables |-> tables, val |-> NoVal,
        err |-> WrapAlways(DriverError, "Failed to create table: ",
                           "TABLE_CREATION_FAILED")]

\* insertDocument(tableName, document): resolves with the id the database
\* gave the row; the statement fails when the table does not exist.
DocInsert(d, tables, tableName, content, variant, out) ==
  IF ~d.initialized \/ ~d.pool
    THEN [tables |-> tables, err |-> NotInitializedDoc(variant), val |-> NoVal]
  ELSE IF out = "ok" /\ HasTable(tables, tableName)
    THEN LET tb == tables[tableName.v]
         IN [tables |-> Put(tables, tableName.v,
                            [next |-> tb.next + 1,
                             docs |-> Put(tb.docs, tb.next, content.v)]),
             err |-> NoErr, val |-> Int2Num(tb.next)]
  ELSE [tables |-> tables, val |-> NoVal,
        err |-> WrapAlways(StatementError(out), "Failed to insert document: ",
                           "VECTOR_SAVE_FAILED")]

\* A getDocumentsByIds whose statement has no ORDER BY FIELD: the rows come
\* in the order of their primary key.
DocGetByIdsInKeyOrder(d, tables, tableName, ids, variant, out) ==
  IF ~d.initialized \/ ~d.pool
    THEN [err |-> NotInitializedDoc(variant), val |-> <<>>]
  ELSE IF ids = <<>> THEN [err |-> NoErr, val |-> <<>>]
  ELSE IF out = "ok" /\ HasTable(tables, tableName)
    THEN LET docs == tables[tableName.v].docs
             hit == {ids[k] : k \in 1..Len(ids)} \cap DOMAIN docs
             found == CHOOSE s \in [1..Cardinality(hit) -> hit] :
                        \A a, b \in 1..Cardinality(hit) : a < b => s[a] < s[b]
         IN [err |-> NoErr,
             val |-> [k \in 1..Len(found) |->
                        [id |-> found[k], content |-> docs[found[k]]]]]
  ELSE [err |-> WrapAlways(StatementError(out), "Failed to get documents by IDs: ",
                           "SEARCH_FAILED"),
        val |-> <<>>]

\* getDocumentsByIds(tableName, ids): the rows whose id is in ids, in the
\* order of ids (ORDER BY FIELD(id, ..) / array_position(.., id)).
DocGetByIds(d, tables, tableName, ids, variant, out) ==
  IF ~d.initialized \/ ~d.pool
    THEN [err |-> NotInitializedDoc(variant), val |-> <<>>]
  ELSE IF ids = <<>> THEN [err |-> NoErr, val |-> <<>>]
  ELSE IF out = "ok" /\ HasTable(tables, tableName)
    THEN LET docs == tables[tableName.v].docs
             found == SelectSeq(ids, LAMBDA k : k \in DOMAIN docs)
         IN [err |-> NoErr,
             val |-> [k \in 1..Len(found) |->
                        [id |-> found[k], content |-> docs[found[k]]]]]
  ELSE [err |-> WrapAlways(StatementError(out), "Failed to get documents by IDs: ",
                           "SEARCH_FAILED"),
        val |-> <<>>]

\* updateDocument(tableName, id, updates): updates is [content, title], a
\* field that is undefined is not updated; resolves with affectedRows > 0
\* (rowCount > 0).
DocUpdate(d, tables, tableName, id, updates, variant, out) ==
  IF ~d.initialized \/ ~d.pool
    THEN [tables |-> tables, err |-> NotInitializedDoc(variant), val |-> NoVal]
  ELSE IF updates.title.t = "undefined" /\ updates.content.t = "undefined"
    THEN [tables |-> tables, err |-> NoErr, val |-> FALSE]
  ELSE IF out = "ok" /\ HasTable(tables, tableName)
    THEN LET tb == tables[tableName.v]
         IN IF NumVal(id) \notin DOMAIN tb.docs
              THEN [tables |-> tables, err |-> NoErr, val |-> FALSE]
            ELSE [tables |-> IF updates.content.t = "undefined" THEN tables
                             ELSE Put(tables, tableName.v,
                                      [tb EXCEPT !.docs = Put(tb.docs, NumVal(id),
                                                              updates.content.v)]),
                  err |-> NoErr, val |-> TRUE]
  ELSE [tables |-> tables, val |-> NoVal,
        err |-> WrapAlways(StatementError(out), "Failed to update document: ",
                           "VECTOR_SAVE_FAILED")]

\* deleteDocument(tableName, id): resolves with affectedRows > 0.
DocDelete(d, tables, tableName, id, variant, out) ==
  IF ~d.initialized \/ ~d.pool
    THEN [tables |-> tables, err |-> NotInitializedDoc(variant), val |-> NoVal]
  ELSE IF out = "ok" /\ HasTable(tables, tableName)
    THEN LET tb == tables[tableName.v]
         IN IF NumVal(id) \notin DOMAIN tb.docs
              THEN [tables |-> tables, err |-> NoErr, val |-> FALSE]
            ELSE [tables |-> Put(tables, tableName.v,
                                 [tb EXCEPT !.docs = Remove(tb.docs, NumVal(id))]),
                  err |-> NoErr, val |-> TRUE]
  ELSE [tables |-> tables, val |-> NoVal,
        err |-> WrapAlways(StatementError(out), "Failed to delete document: ",
                           "VECTOR_SAVE_FAILED")]

\* close(): await this.pool.end() outside any try block, so the driver's
\* error leaves the method as it is and the fields are not reset.
DocClose(d, out) ==
  IF ~d.pool THEN [st |-> d, err |-> NoErr, val |-> NoVal]
  ELSE IF out = "ok" THEN [st |-> DocNew, err |-> NoErr, val |-> NoVal]
  ELSE [st |-> d, err |-> DriverError, val |-> NoVal]

\* ------------------------------------------------------------------------
\* State.
\* ------------------------------------------------------------------------
\* The module instances a process can hold.
Inst == {"A", "B"}

Variants == {"plain", "mysql", "pg"}

Outs == {"ok", "error", "throws"}

Outs2 == {"ok", "error", "error2", "throws"}

VARIABLES
  config,       \* config[i]: variant ("none": not constructed), modelPath, databasePath
  initialized,  \* initialized[i]: the module's lifecycle flag
  emb,          \* the fields of the NoMicEmbeddingService singleton
  vdb,          \* vdb[i]: the fields of the module's SQLiteVectorDatabase
  vfile,        \* vfile[i]: the sqlite file at the module's databasePath
  doc,          \* doc[i]: the fields of the module's MySQLDatabase / PostgreSQLDatabase
  rows,         \* rows[i]: the document tables of the module's relational database
  last,         \* the most recent call: what it saw, did and returned
  closedOnce,   \* closedOnce[i]: a close() of the instance has succeeded
  flight,       \* the calls of save, search and embed that are awaiting a collaborator
  saved,        \* saved[i]: per collection and id, the text of the last save that resolved true
  asked         \* the argument the calls of an input-driven behaviour are made with

vars ==
  <<config, initialized, emb, vdb, vfile, doc, rows, last, closedOnce, flight, saved,
    asked>>

\* A result value: [t, v] like a request value.
Res(t, v) == [t |-> t, v |-> v]

\* The state a call of instance i starts from, as the outcome of a call that
\* changed nothing and resolved with undefined.  An outcome carries the
\* fields of the instance and its collaborators after the call, the error
\* the call rejected with (err), the value it resolved with (res), the
\* collaborator methods it invoked in order (calls), and the error the
\* failing collaborator rejected with (collab), and the value save's
\* insertVector resolved with (ret).
Cur(i) ==
  [flag |-> initialized[i], emb |-> emb, vdb |-> vdb[i], vfile |-> vfile[i],
   doc |-> doc[i], rows |-> rows[i],
   err |-> NoErr, res |-> Undef, calls |-> <<>>, collab |-> NoErr, ret |-> Undef]

\* request.text.length (or request.content.length) in the argument of the
\* logger call that precedes the try block: a TypeError when the field is
\* undefined or null.
LengthOf(field) ==
  IF field.t = "undefined"
    THEN Foreign("TypeError", "Cannot read properties of undefined (reading 'length')")
    ELSE NoErr

\* ------------------------------------------------------------------------
\* index.ts (RAGModule)
\* ------------------------------------------------------------------------
\* A gate that asks the embedding engine instead of the module's own flag.
EngineNotInitialized(i) == ~emb.initialized

\* if (!this.initialized) throw new RAGError('RAG module not initialized', ..)
NotInitialized(i) == ~initialized[i]

GateError(i) ==
  RAGError(<<CASE config[i].variant = "plain" -> "RAG module not initialized"
               [] config[i].variant = "mysql" -> "Hybrid RAG module not initialized"
               [] OTHER -> "PostgreSQL Hybrid RAG module not initialized">>,
           "INVALID_INPUT", <<>>)

\* validateEmbedRequest(request): [err, text]
validateEmbedRequest(req) ==
  LET t == validateText(req.text, "text")
  IN IF t.err # NoErr THEN [err |-> t.err, text |-> Undef]
     ELSE [err |-> NoErr, text |-> sanitizeText(t.val)]

\* validateSaveRequest(request): [err, text, id, tablename]
validateSaveRequest(req) ==
  LET t == validateText(req.text, "text")
      n == validateId(req.id)
      tb == validateTableName(req.tablename)
      bad(e) == [err |-> e, text |-> Undef, id |-> Undef, tablename |-> Undef]
  IN IF t.err # NoErr THEN bad(t.err)
     ELSE IF n.err # NoErr THEN bad(n.err)
     ELSE IF tb.err # NoErr THEN bad(tb.err)
     ELSE [err |-> NoErr, text |-> sanitizeText(t.val), id |-> n.val,
           tablename |-> tb.val]

\* validateSearchRequest(request): [err, text, tablename, qty]
validateSearchRequest(req, fieldName) ==
  LET t == validateText(req.text, fieldName)
      tb == validateTableName(req.tablename)
      q == validateSearchQuantity(req.qty)
      bad(e) == [err |-> e, text |-> Undef, tablename |-> Undef, qty |-> Undef]
  IN IF t.err # NoErr THEN bad(t.err)
     ELSE IF tb.err # NoErr THEN bad(tb.err)
     ELSE IF q.err # NoErr THEN bad(q.err)
     ELSE [err |-> NoErr, text |-> sanitizeText(t.val), tablename |-> tb.val,
           qty |-> q.val]

\* What insertVector can do: the outcomes of the driver, and resolving with
\* false.
InsertOuts == Outs \cup {"false"}

\* A save that reports success whatever the store answered.
SaveResultAlwaysTrue(success) == Res("boolean", <<TRUE>>)

\* return success: the value insertVector resolved with, as it is.
SaveResult(success) == Res("boolean", <<success>>)

\* RAGModule.save(request): the outcomes the call can have.
RAGSave(i, req) ==
  IF NotInitialized(i) THEN {[Cur(i) EXCEPT !.err = GateError(i)]}
  ELSE IF LengthOf(req.text) # NoErr THEN {[Cur(i) EXCEPT !.err = LengthOf(req.text)]}
  ELSE LET v == validateSaveRequest(req)
           catch(e) == RethrowOrWrap(e, "Failed to save vector: ", "VECTOR_SAVE_FAILED")
       IN IF v.err # NoErr THEN {[Cur(i) EXCEPT !.err = catch(v.err)]}
          ELSE UNION { LET r == EmbEmbed(emb, v.text, o1)
            IN IF r.err # NoErr
                 THEN {[Cur(i) EXCEPT !.calls = <<"embed">>, !.collab = r.err,
                          !.err = catch(r.err)]}
               ELSE UNION { LET c == VdbCreateTable(vdb[i], vfile[i], v.tablename, o2)
                 IN IF c.err # NoErr
                      THEN {[Cur(i) EXCEPT
                               !.calls = <<"embed", "createTableIfNotExists">>,
                               !.collab = c.err, !.err = catch(c.err)]}
                    ELSE { LET calls == <<"embed", "createTableIfNotExists", "insertVector">>
                               w == VdbInsertVector(vdb[i], c.file, v.tablename,
                                                    NumVal(v.id), r.val, o3)
                           IN IF w.err # NoErr
                                THEN [Cur(i) EXCEPT !.calls = calls, !.vfile = w.file,
                                        !.collab = w.err, !.err = catch(w.err)]
                              ELSE [Cur(i) EXCEPT !.calls = calls, !.vfile = w.file,
                                      !.res = SaveResult(w.val), !.ret = w.val]
                           : o3 \in InsertOuts }
                 : o2 \in Outs }
            : o1 \in Outs }

\* RAGModule.search(request): the outcomes the call can have.
RAGSearch(i, req) ==
  IF NotInitialized(i) THEN {[Cur(i) EXCEPT !.err = GateError(i)]}
  ELSE IF LengthOf(req.text) # NoErr THEN {[Cur(i) EXCEPT !.err = LengthOf(req.text)]}
  ELSE LET v == validateSearchRequest(req, "Search text")
           catch(e) == RethrowOrWrap(e, "Failed to search vectors: ", "SEARCH_FAILED")
       IN IF v.err # NoErr THEN {[Cur(i) EXCEPT !.err = catch(v.err)]}
          ELSE UNION { LET r == EmbEmbed(emb, v.text, o1)
            IN IF r.err # NoErr
                 THEN {[Cur(i) EXCEPT !.calls = <<"embed">>, !.collab = r.err,
                          !.err = catch(r.err)]}
               ELSE { IF s.err # NoErr
                        THEN [Cur(i) EXCEPT !.calls = <<"embed", "search">>,
                                !.collab = s.err, !.err = catch(s.err)]
                        ELSE [Cur(i) EXCEPT !.calls = <<"embed", "search">>,
                                !.res = Res("array", s.val)]
                      : s \in UNION { VectorSearch(vdb[i], vfile[i], v.tablename,
                                                   r.val, v.qty, o2) : o2 \in Outs } }
            : o1 \in Outs }

\* An embed that also stores the vector it computed, as save does.
RAGEmbedAndStore(i, req) ==
  RAGSave(i, [text |-> req.text, id |-> Int2Num(0), tablename |-> Str(<<"t">>)])

\* RAGModule.embed(request): the outcomes the call can have.
RAGEmbed(i, req) ==
  IF NotInitialized(i) THEN {[Cur(i) EXCEPT !.err = GateError(i)]}
  ELSE IF LengthOf(req.text) # NoErr THEN {[Cur(i) EXCEPT !.err = LengthOf(req.text)]}
  ELSE LET v == validateEmbedRequest(req)
       IN IF v.err # NoErr
            THEN {[Cur(i) EXCEPT !.err = RethrowOrWrap(v.err,
                     "Failed to generate embedding: ", "EMBEDDING_FAILED")]}
          ELSE { LET r == EmbEmbed(emb, v.text, o)
                 IN IF r.err # NoErr
                      THEN [Cur(i) EXCEPT !.calls = <<"embed">>, !.collab = r.err,
                              !.err = RethrowOrWrap(r.err,
                                 "Failed to generate embedding: ", "EMBEDDING_FAILED")]
                    ELSE [Cur(i) EXCEPT !.calls = <<"embed">>,
                              !.res = Res("vector", r.val.of)]
                 : o \in Outs }

\* An initialize() without its first statement.
NeverAlreadyInitialized(i) == FALSE

\* An initialize() that also returns at once while another initialize() of
\* the instance is awaiting a collaborator.
AlreadyInitializing(i) ==
  initialized[i] \/ \E c \in BagToSet(flight) : c.inst = i /\ c.op = "initialize"

\* if (this.initialized) return;   (first statement of initialize)
AlreadyInitialized(i) == initialized[i]

\* The flag set as soon as the embedding engine is loaded.
InitializedAfterEngine(embErr, dbErr) == embErr = NoErr

\* this.initialized = true, reached when both collaborators resolved.
InitializedAfter(embErr, dbErr) == embErr = NoErr /\ dbErr = NoErr

\* RAGModule.initialize(): the outcomes the call can have.
RAGInitialize(i) ==
  IF AlreadyInitialized(i) THEN {Cur(i)}
  ELSE LET catch(e) == RethrowOrWrap(e, "Failed to initialize RAG module: ",
                                     "MODEL_LOAD_FAILED")
       IN UNION { LET r == EmbInitialize(emb, config[i].modelPath, o1)
            IN IF r.err # NoErr
                 THEN {[Cur(i) EXCEPT !.emb = r.st, !.calls = <<"embedding.initialize">>,
                          !.flag = InitializedAfter(r.err, NoErr),
                          !.collab = r.err, !.err = catch(r.err)]}
               ELSE { LET d == VdbInitialize(vdb[i], config[i].databasePath, o2)
                      IN [Cur(i) EXCEPT !.emb = r.st, !.vdb = d.st,
                            !.calls = <<"embedding.initialize", "database.initialize">>,
                            !.flag = InitializedAfter(r.err, d.err),
                            !.collab = d.err,
                            !.err = IF d.err # NoErr THEN catch(d.err) ELSE NoErr]
                      : o2 \in Outs2 }
            : o1 \in Outs }

\* A close() that forgets to reset the flag.
InitializedAfterCloseKept(embErr, dbErr) == TRUE

\* this.initialized = false, reached when both collaborators' close resolved.
InitializedAfterClose(embErr, dbErr) == ~(embErr = NoErr /\ dbErr = NoErr)

\* RAGModule.close(): the outcomes the call can have.
RAGClose(i) ==
  IF NotInitialized(i) THEN {Cur(i)}
  ELSE LET catch(e) == RethrowOrWrap(e, "Failed to close RAG module: ",
                                     "MODEL_LOAD_FAILED")
       IN UNION { LET r == EmbClose(emb, o1)
            IN IF r.err # NoErr
                 THEN {[Cur(i) EXCEPT !.emb = r.st, !.calls = <<"embedding.close">>,
                          !.flag = InitializedAfterClose(r.err, NoErr),
                          !.collab = r.err, !.err = catch(r.err)]}
               ELSE { LET d == VdbClose(vdb[i], o2)
                      IN [Cur(i) EXCEPT !.emb = r.st, !.vdb = d.st,
                            !.calls = <<"embedding.close", "database.close">>,
                            !.flag = InitializedAfterClose(r.err, d.err),
                            !.collab = d.err,
                            !.err = IF d.err # NoErr THEN catch(d.err) ELSE NoErr]
                      : o2 \in Outs }
            : o1 \in Outs2 }

\* ------------------------------------------------------------------------
\* hybridRAG.ts (HybridRAGModule) and postgresHybridRAG.ts
\* (PostgresHybridRAGModule): the same methods over MySQLDatabase and
\* PostgreSQLDatabase; the variant of the instance picks the messages.
\* ------------------------------------------------------------------------
IsMySQL(i) == config[i].variant = "mysql"

\* What a statement of the relational driver, and the pool's end(), can do.
DocOuts == {"ok", "error"}

\* What a call of the embedding engine or the vector store does in a hybrid
\* module, which constructs the concrete NoMicEmbeddingService and
\* SQLiteVectorDatabase: it resolves, or rejects with the driver's error
\* wrapped in a RAGError.
ServiceOuts == {"ok", "error"}

\* HybridRAGModule.initialize(): the catch block wraps whatever it caught.
HybridInitialize(i) ==
  IF AlreadyInitialized(i) THEN {Cur(i)}
  ELSE LET catch(e) ==
             WrapAlways(e, IF IsMySQL(i) THEN "Failed to initialize Hybrid RAG module: "
                           ELSE "Failed to initialize PostgreSQL Hybrid RAG module: ",
                        "MODEL_LOAD_FAILED")
       IN UNION { LET r == EmbInitialize(emb, config[i].modelPath, o1)
            IN IF r.err # NoErr
                 THEN {[Cur(i) EXCEPT !.emb = r.st, !.calls = <<"embedding.initialize">>,
                          !.collab = r.err, !.err = catch(r.err)]}
               ELSE UNION { LET d == VdbInitialize(vdb[i], config[i].databasePath, o2)
                 IN IF d.err # NoErr
                      THEN {[Cur(i) EXCEPT !.emb = r.st, !.vdb = d.st,
                               !.calls = <<"embedding.initialize", "database.initialize">>,
                               !.collab = d.err, !.err = catch(d.err)]}
                    ELSE { LET m == DocInitialize(doc[i], config[i].variant, o3)
                           IN [Cur(i) EXCEPT !.emb = r.st, !.vdb = d.st, !.doc = m.st,
                                 !.calls = <<"embedding.initialize", "database.initialize",
                                             "documents.initialize">>,
                                 !.flag = InitializedAfter(NoErr, m.err),
                                 !.collab = m.err,
                                 !.err = IF m.err # NoErr THEN catch(m.err) ELSE NoErr]
                           : o3 \in DocOuts }
                 : o2 \in Outs2 }
            : o1 \in Outs }

\* HybridRAGModule.close(): the catch block wraps whatever it caught.
HybridClose(i) ==
  IF NotInitialized(i) THEN {Cur(i)}
  ELSE LET catch(e) ==
             WrapAlways(e, IF IsMySQL(i) THEN "Failed to close Hybrid RAG module: "
                           ELSE "Failed to close PostgreSQL Hybrid RAG module: ",
                        "MODEL_LOAD_FAILED")
       IN UNION { LET r == EmbClose(emb, o1)
            IN IF r.err # NoErr
                 THEN {[Cur(i) EXCEPT !.emb = r.st, !.calls = <<"embedding.close">>,
                          !.collab = r.err, !.err = catch(r.err)]}
               ELSE UNION { LET d == VdbClose(vdb[i], o2)
                 IN IF d.err # NoErr
                      THEN {[Cur(i) EXCEPT !.emb = r.st, !.vdb = d.st,
                               !.calls = <<"embedding.close", "database.close">>,
                               !.collab = d.err, !.err = catch(d.err)]}
                    ELSE { LET m == DocClose(doc[i], o3)
                           IN [Cur(i) EXCEPT !.emb = r.st, !.vdb = d.st, !.doc = m.st,
                                 !.calls = <<"embedding.close", "database.close",
                                             "documents.close">>,
                                 !.flag = InitializedAfterClose(NoErr, m.err),
                                 !.collab = m.err,
                                 !.err = IF m.err # NoErr THEN catch(m.err) ELSE NoErr]
                           : o3 \in DocOuts }
                 : o2 \in Outs }
            : o1 \in Outs2 }

\* HybridRAGModule.embed(request): no log line before the try block.
HybridEmbed(i, req) ==
  IF NotInitialized(i) THEN {[Cur(i) EXCEPT !.err = GateError(i)]}
  ELSE LET v == validateEmbedRequest(req)
           catch(e) == RethrowOrWrap(e, "Failed to generate embedding: ",
                                     "EMBEDDING_FAILED")
       IN IF v.err # NoErr THEN {[Cur(i) EXCEPT !.err = catch(v.err)]}
          ELSE { LET r == EmbEmbed(emb, v.text, o)
                 IN IF r.err # NoErr
                      THEN [Cur(i) EXCEPT !.calls = <<"embed">>, !.collab = r.err,
                              !.err = catch(r.err)]
                    ELSE [Cur(i) EXCEPT !.calls = <<"embed">>,
                              !.res = Res("vector", r.val.of)]
                 : o \in ServiceOuts }

\* validateSaveDocumentRequest(request): [err, content, tablename]
validateSaveDocumentRequest(req) ==
  LET t == validateText(req.content, "document content")
      tb == validateTableName(req.tablename)
  IN IF t.err # NoErr THEN [err |-> t.err, content |-> Undef, tablename |-> Undef]
     ELSE IF tb.err # NoErr THEN [err |-> tb.err, content |-> Undef, tablename |-> Undef]
     ELSE [err |-> NoErr, content |-> sanitizeText(t.val), tablename |-> tb.val]

\* A vector keyed by the position of the document, counted from 0.
VectorKeyFromZero(documentId) == NumVal(documentId) - 1

\* The id saveDocument passes to insertVector: the documentId that
\* insertDocument resolved with.
VectorKey(documentId) == NumVal(documentId)

\* A catch block that undoes what the call wrote to the relational store.
RowsRolledBack(written, before) == before

\* The catch block of saveDocument only rethrows or wraps: the tables stay
\* as the statements of the call left them.
RowsAfterFailure(written, before) == written

\* HybridRAGModule.saveDocument(request): the outcomes the call can have.
\* The row is inserted before the content is embedded, and stays when a
\* later step fails.
HybridSaveDocument(i, req) ==
  IF NotInitialized(i) THEN {[Cur(i) EXCEPT !.err = GateError(i)]}
  ELSE IF LengthOf(req.content) # NoErr
    THEN {[Cur(i) EXCEPT !.err = LengthOf(req.content)]}
  ELSE LET v == validateSaveDocumentRequest(req)
           va == config[i].variant
           catch(e) == RethrowOrWrap(e, "Failed to save document: ", "VECTOR_SAVE_FAILED")
           c1 == <<"createDocumentsTable">>
           c2 == c1 \o <<"insertDocument">>
           c3 == c2 \o <<"embed">>
           c4 == c3 \o <<"createTableIfNotExists">>
           c5 == c4 \o <<"insertVector">>
           fail(calls, tables, file, e) ==
             [Cur(i) EXCEPT !.calls = calls, !.rows = RowsAfterFailure(tables, rows[i]),
                            !.vfile = file, !.collab = e, !.err = catch(e)]
       IN IF v.err # NoErr THEN {[Cur(i) EXCEPT !.err = catch(v.err)]}
          ELSE UNION { LET t == DocCreateTable(doc[i], rows[i], v.tablename, va, o1)
            IN IF t.err # NoErr THEN {fail(c1, t.tables, vfile[i], t.err)}
               ELSE UNION { LET n == DocInsert(doc[i], t.tables, v.tablename,
                                               v.content, va, o2)
                 IN IF n.err # NoErr THEN {fail(c2, n.tables, vfile[i], n.err)}
                    ELSE UNION { LET r == EmbEmbed(emb, v.content, o3)
                      IN IF r.err # NoErr THEN {fail(c3, n.tables, vfile[i], r.err)}
                         ELSE UNION { LET c == VdbCreateTable(vdb[i], vfile[i],
                                                              v.tablename, o4)
                           IN IF c.err # NoErr THEN {fail(c4, n.tables, c.file, c.err)}
                              ELSE { LET w == VdbInsertVector(vdb[i], c.file, v.tablename,
                                                              VectorKey(n.val), r.val, o5)
                                     IN IF w.err # NoErr
                                          THEN fail(c5, n.tables, w.file, w.err)
                                        ELSE [Cur(i) EXCEPT !.calls = c5,
                                                !.rows = n.tables, !.vfile = w.file,
                                                !.res = n.val]
                                     : o5 \in ServiceOuts }
                           : o4 \in ServiceOuts }
                      : o3 \in ServiceOuts }
                 : o2 \in DocOuts }
            : o1 \in DocOuts }

\* HybridRAGModule.searchDocuments(request): the outcomes the call can have.
HybridSearchDocuments(i, req) ==
  IF NotInitialized(i) THEN {[Cur(i) EXCEPT !.err = GateError(i)]}
  ELSE IF LengthOf(req.text) # NoErr THEN {[Cur(i) EXCEPT !.err = LengthOf(req.text)]}
  ELSE LET v == validateSearchRequest(req, "search text")
           catch(e) == RethrowOrWrap(e, "Failed to search documents: ", "SEARCH_FAILED")
           c1 == <<"embed">>
           c2 == c1 \o <<"search">>
           c3 == c2 \o <<"getDocumentsByIds">>
           fail(calls, e) == [Cur(i) EXCEPT !.calls = calls, !.collab = e,
                                            !.err = catch(e)]
       IN IF v.err # NoErr THEN {[Cur(i) EXCEPT !.err = catch(v.err)]}
          ELSE UNION { LET r == EmbEmbed(emb, v.text, o1)
            IN IF r.err # NoErr THEN {fail(c1, r.err)}
               ELSE UNION { IF s.err # NoErr THEN {fail(c2, s.err)}
                            ELSE IF Len(s.val) = 0
                              THEN {[Cur(i) EXCEPT !.calls = c2, !.res = Res("array", <<>>)]}
                            ELSE { LET g == DocGetByIds(doc[i], rows[i], v.tablename,
                                                        s.val, config[i].variant, o3)
                                   IN IF g.err # NoErr THEN fail(c3, g.err)
                                      ELSE [Cur(i) EXCEPT !.calls = c3,
                                              !.res = Res("array", g.val)]
                                   : o3 \in DocOuts }
                      : s \in UNION { VectorSearch(vdb[i], vfile[i], v.tablename,
                                                   r.val, v.qty, o2) : o2 \in ServiceOuts } }
            : o1 \in ServiceOuts }

\* updates.content as the condition of an if: a non-empty string.
Truthy(x) == x.t = "string" /\ x.v # <<>>

\* HybridRAGModule.updateDocument(tablename, id, updates): the arguments
\* reach the statement as they were passed, no validator runs.
HybridUpdateDocument(i, req) ==
  IF NotInitialized(i) THEN {[Cur(i) EXCEPT !.err = GateError(i)]}
  ELSE LET catch(e) == RethrowOrWrap(e, "Failed to update document: ",
                                     "VECTOR_SAVE_FAILED")
           c1 == <<"updateDocument">>
           c2 == c1 \o <<"embed">>
           c3 == c2 \o <<"insertVector">>
           fail(calls, tables, file, e) ==
             [Cur(i) EXCEPT !.calls = calls, !.rows = tables, !.vfile = file,
                            !.collab = e, !.err = catch(e)]
       IN UNION { LET u == DocUpdate(doc[i], rows[i], req.tablename, req.id,
                                     req.updates, config[i].variant, o1)
            IN IF u.err # NoErr THEN {fail(c1, u.tables, vfile[i], u.err)}
               ELSE IF ~(u.val /\ Truthy(req.updates.content))
                 THEN {[Cur(i) EXCEPT !.calls = c1, !.rows = u.tables,
                          !.res = Res("boolean", <<u.val>>)]}
               ELSE UNION { LET r == EmbEmbed(emb, req.updates.content, o2)
                 IN IF r.err # NoErr THEN {fail(c2, u.tables, vfile[i], r.err)}
                    ELSE { LET w == VdbInsertVector(vdb[i], vfile[i], req.tablename,
                                                    NumVal(req.id), r.val, o3)
                           IN IF w.err # NoErr THEN fail(c3, u.tables, w.file, w.err)
                              ELSE [Cur(i) EXCEPT !.calls = c3, !.rows = u.tables,
                                      !.vfile = w.file,
                                      !.res = Res("boolean", <<u.val>>)]
                           : o3 \in ServiceOuts }
                 : o2 \in ServiceOuts }
            : o1 \in DocOuts }

\* HybridRAGModule.deleteDocument(tablename, id): the row of the relational
\* database only; the vector of the document stays in the vector store.
HybridDeleteDocument(i, req) ==
  IF NotInitialized(i) THEN {[Cur(i) EXCEPT !.err = GateError(i)]}
  ELSE { LET x == DocDelete(doc[i], rows[i], req.tablename, req.id,
                            config[i].variant, o)
         IN IF x.err # NoErr
              THEN [Cur(i) EXCEPT !.calls = <<"deleteDocument">>, !.collab = x.err,
                      !.err = RethrowOrWrap(x.err, "Failed to delete document: ",
                                            "VECTOR_SAVE_FAILED")]
            ELSE [Cur(i) EXCEPT !.calls = <<"deleteDocument">>, !.rows = x.tables,
                    !.res = Res("boolean", <<x.val>>)]
         : o \in DocOuts }

\* HybridRAGModule.getDocument(tablename, id): the row, or null.
HybridGetDocument(i, req) ==
  IF NotInitialized(i) THEN {[Cur(i) EXCEPT !.err = GateError(i)]}
  ELSE { LET g == DocGetByIds(doc[i], rows[i], req.tablename, <<NumVal(req.id)>>,
                              config[i].variant, o)
         IN IF g.err # NoErr
              THEN [Cur(i) EXCEPT !.calls = <<"getDocumentsByIds">>, !.collab = g.err,
                      !.err = RethrowOrWrap(g.err, "Failed to get document: ",
                                            "SEARCH_FAILED")]
            ELSE [Cur(i) EXCEPT !.calls = <<"getDocumentsByIds">>,
                    !.res = IF Len(g.val) > 0 THEN Res("document", <<g.val[1]>>)
                            ELSE Res("null", <<>>)]
         : o \in DocOuts }

\* ------------------------------------------------------------------------
\* Requests a caller can pass.
\* ------------------------------------------------------------------------
\* text: missing, not a string, empty, a control character only, two plain
\* texts, a text to trim.
TextInputs ==
  {Undef, Int2Num(1), Str(<<>>), Str(<<Ctrl>>), Str(<<"a">>), Str(<<"b">>),
   Str(<<Space, "a">>)}

\* id: missing, 0, 1, -1, 1.5.
IdInputs == {Undef, Int2Num(0), Int2Num(1), Int2Num(-1), Num(3)}

\* tablename: missing, a name, the same name to trim, a name starting with a
\* digit, a reserved word.
TableInputs ==
  {Undef, Str(<<"t">>), Str(<<Space, "t">>), Str(<<"1", "t">>),
   Str(<<"j", "o", "i", "n">>)}

\* qty: missing, 0, -1, 5.5, 1, 1000, 1001.
QtyInputs ==
  {Undef, Int2Num(0), Int2Num(-1), Num(11), Int2Num(1), Int2Num(1000),
   Int2Num(1001)}

EmbedRequests == [text : TextInputs]

SaveRequests == [text : TextInputs, id : IdInputs, tablename : TableInputs]

SearchRequests == [text : TextInputs, tablename : TableInputs, qty : QtyInputs]

\* content of a document: missing, empty, a control character only, two
\* plain texts.
ContentInputs == {Undef, Str(<<>>), Str(<<Ctrl>>), Str(<<"a">>), Str(<<"b">>)}

\* updates.content: missing, empty, a plain text.
UpdateContentInputs == {Undef, Str(<<>>), Str(<<"a">>)}

\* tablename of a document operation: missing, a name, the name to trim.
DocTableInputs == {Undef, Str(<<"t">>), Str(<<Space, "t">>)}

\* The ids a documents table can have given.
DocIds == {Int2Num(k) : k \in 1..MaxDocs}

SaveDocumentRequests == [content : ContentInputs, tablename : DocTableInputs]

HybridSearchRequests ==
  [text : {Undef, Str(<<>>), Str(<<"a">>)}, tablename : DocTableInputs,
   qty : {Int2Num(0), Int2Num(1), Int2Num(1000)}]

\* tablename of updateDocument, deleteDocument, getDocument: a name, a name
\* starting with a digit.
RowTableInputs == {Str(<<"t">>), Str(<<"1", "t">>)}

\* The name starting with a digit goes with id 1 (and no title).
UpdateRequests ==
  {r \in [tablename : RowTableInputs, id : DocIds,
          updates : [content : UpdateContentInputs, title : {Undef, Str(<<"a">>)}]] :
     r.tablename # Str(<<"t">>) => r.id = Int2Num(1) /\ r.updates.title = Undef}

RowRequests ==
  {r \in [tablename : RowTableInputs, id : DocIds] :
     r.tablename # Str(<<"t">>) => r.id = Int2Num(1)}

\* The text of a request, undefined if it has none.
TextOf(req) ==
  IF "text" \in DOMAIN req THEN req.text
  ELSE IF "content" \in DOMAIN req THEN req.content
  ELSE Undef

\* The fields of a request that its validator rejects.
BadFields(req) ==
  {f \in DOMAIN req :
     CASE f = "text" -> validateText(req.text, "text").err # NoErr
       [] f = "content" -> validateText(req.content, "content").err # NoErr
       [] f = "id" -> validateId(req.id).err # NoErr
       [] f = "tablename" -> validateTableName(req.tablename).err # NoErr
       [] f = "qty" -> validateSearchQuantity(req.qty).err # NoErr
       [] OTHER -> FALSE}

\* The texts of the saves that resolved true, after a call of op with
\* request req had outcome r: save's `return success` with success = true
\* records the text it embedded under the collection and id it validated.
Remembered(s, op, req, r) ==
  IF op = "save" /\ r.err = NoErr /\ r.res = Res("boolean", <<TRUE>>)
    THEN LET v == validateSaveRequest(req)
             t == v.tablename.v
         IN Put(s, t, Put(IF t \in DOMAIN s THEN s[t] ELSE EmptyMap,
                          NumVal(v.id), v.text.v))
  ELSE s

\* A call whose failure also clears the lifecycle flag of the instance.
CallClearingFlag(i, op, req, r) ==
  /\ initialized' = [initialized EXCEPT ![i] = r.flag /\ r.err = NoErr]
  /\ emb' = r.emb
  /\ vdb' = [vdb EXCEPT ![i] = r.vdb]
  /\ vfile' = [vfile EXCEPT ![i] = r.vfile]
  /\ doc' = [doc EXCEPT ![i] = r.doc]
  /\ rows' = [rows EXCEPT ![i] = r.rows]
  /\ last' = [op |-> op, inst |-> i, wasInit |-> initialized[i],
              invalid |-> BadFields(req) # {}, noText |-> TextOf(req) = Undef,
              err |-> r.err, res |-> r.res, calls |-> r.calls, collab |-> r.collab,
              ret |-> r.ret]
  /\ closedOnce' = [closedOnce EXCEPT
                      ![i] = @ \/ (op = "close" /\ initialized[i] /\ r.err = NoErr)]
  /\ saved' = [saved EXCEPT ![i] = Remembered(saved[i], op, req, r)]
  /\ UNCHANGED <<config, flight, asked>>

\* ------------------------------------------------------------------------
\* Actions: one per public method.  Call installs the outcome r of a call of
\* method op on instance i and records it in last.
\* ------------------------------------------------------------------------
Settle(i, op, req, r) ==
  /\ initialized' = [initialized EXCEPT ![i] = r.flag]
  /\ emb' = r.emb
  /\ vdb' = [vdb EXCEPT ![i] = r.vdb]
  /\ vfile' = [vfile EXCEPT ![i] = r.vfile]
  /\ doc' = [doc EXCEPT ![i] = r.doc]
  /\ rows' = [rows EXCEPT ![i] = r.rows]
  /\ last' = [op |-> op, inst |-> i, wasInit |-> initialized[i],
              invalid |-> BadFields(req) # {}, noText |-> TextOf(req) = Undef,
              err |-> r.err, res |-> r.res, calls |-> r.calls, collab |-> r.collab,
              ret |-> r.ret]
  /\ closedOnce' = [closedOnce EXCEPT
                      ![i] = @ \/ (op = "close" /\ initialized[i] /\ r.err = NoErr)]
  /\ saved' = [saved EXCEPT ![i] = Remembered(saved[i], op, req, r)]
  /\ UNCHANGED <<config, asked>>

\* A call that runs from its first statement to its return with no other
\* call in between.
Call(i, op, req, r) == Settle(i, op, req, r) /\ UNCHANGED flight

\* A call without a request.
NoReq == [text |-> Str(<<"a">>)]

IsPlain(i) == config[i].variant = "plain"

IsHybrid(i) == config[i].variant \in {"mysql", "pg"}

Initialize(i) ==
  \/ IsPlain(i) /\ \E r \in RAGInitialize(i) : Call(i, "initialize", NoReq, r)
  \/ IsHybrid(i) /\ \E r \in HybridInitialize(i) : Call(i, "initialize", NoReq, r)

Close(i) ==
  \/ IsPlain(i) /\ \E r \in RAGClose(i) : Call(i, "close", NoReq, r)
  \/ IsHybrid(i) /\ \E r \in HybridClose(i) : Call(i, "close", NoReq, r)

Embed(i) ==
  \E req \in EmbedRequests :
    \/ IsPlain(i) /\ \E r \in RAGEmbed(i, req) : Call(i, "embed", req, r)
    \/ IsHybrid(i) /\ \E r \in HybridEmbed(i, req) : Call(i, "embed", req, r)

Save(i) ==
  /\ IsPlain(i)
  /\ \E req \in SaveRequests : \E r \in RAGSave(i, req) : Call(i, "save", req, r)

Search(i) ==
  /\ IsPlain(i)
  /\ \E req \in SearchRequests : \E r \in RAGSearch(i, req) : Call(i, "search", req, r)

\* The documents table the request names has given its MaxDocs ids.
TableFull(i, req) ==
  LET v == validateSaveDocumentRequest(req)
  IN /\ v.err = NoErr
     /\ HasTable(rows[i], v.tablename)
     /\ rows[i][v.tablename.v].next > MaxDocs

SaveDocument(i) ==
  /\ IsHybrid(i)
  /\ \E req \in SaveDocumentRequests :
       /\ ~TableFull(i, req)
       /\ \E r \in HybridSaveDocument(i, req) : Call(i, "saveDocument", req, r)

SearchDocuments(i) ==
  /\ IsHybrid(i)
  /\ \E req \in HybridSearchRequests :
       \E r \in HybridSearchDocuments(i, req) : Call(i, "searchDocuments", req, r)

UpdateDocument(i) ==
  /\ IsHybrid(i)
  /\ \E req \in UpdateRequests :
       \E r \in HybridUpdateDocument(i, req) : Call(i, "updateDocument", req, r)

DeleteDocument(i) ==
  /\ IsHybrid(i)
  /\ \E req \in RowRequests :
       \E r \in HybridDeleteDocument(i, req) : Call(i, "deleteDocument", req, r)

GetDocument(i) ==
  /\ IsHybrid(i)
  /\ \E req \in RowRequests :
       \E r \in HybridGetDocument(i, req) : Call(i, "getDocument", req, r)

\* ------------------------------------------------------------------------
\* Calls in flight.  save, search and embed are async functions: each runs to
\* its next await, and other calls run while the awaited collaborator works.
\* The calls in flight are a bag (two calls with one request can be at the
\* same await).  A call in flight is [inst, op, req, v, pc, vec, file0]: the
\* request it was given, the request after validation, the collaborator it awaits, the
\* vector the embedding engine gave it, and (for a search) the storage as it
\* was when the call was made.  A step below is the completion of the
\* awaited collaborator together with the statements up to the next await.
\* ------------------------------------------------------------------------
\* The most calls that await a collaborator at one time.
MaxFlight == 2

\* Requests of the calls that overlap: one collection, two ids, two texts
\* for one of the ids.
FlightTexts == {Str(<<"a">>), Str(<<"b">>)}

FlightSaveRequests ==
  {r \in [text : FlightTexts, id : {Int2Num(0), Int2Num(1)},
          tablename : {Str(<<"t">>)}] :
     r.id = Int2Num(0) => r.text = Str(<<"a">>)}

FlightSearchRequests ==
  [text : {Str(<<"a">>)}, tablename : {Str(<<"t">>)}, qty : {Int2Num(1)}]

FlightEmbedRequests == [text : {Str(<<"a">>), Str(<<>>)}]

FlightRequests(op) ==
  CASE op = "save" -> FlightSaveRequests
    [] op = "search" -> FlightSearchRequests
    [] OTHER -> FlightEmbedRequests

\* The validator of the method.
Validated(op, req) ==
  CASE op = "save" -> validateSaveRequest(req)
    [] op = "search" -> validateSearchRequest(req, "Search text")
    [] OTHER -> validateEmbedRequest(req)

\* The catch block of the method.
Catch(op, e) ==
  CASE op = "save" -> RethrowOrWrap(e, "Failed to save vector: ", "VECTOR_SAVE_FAILED")
    [] op = "search" -> RethrowOrWrap(e, "Failed to search vectors: ", "SEARCH_FAILED")
    [] OTHER -> RethrowOrWrap(e, "Failed to generate embedding: ", "EMBEDDING_FAILED")

\* The error the method rejects with before it awaits anything: the gate,
\* the logger argument, the validator.
Rejection(i, op, req) ==
  IF NotInitialized(i) THEN GateError(i)
  ELSE IF LengthOf(req.text) # NoErr THEN LengthOf(req.text)
  ELSE IF Validated(op, req).err # NoErr THEN Catch(op, Validated(op, req).err)
  ELSE NoErr

\* A vector kept in a field of the module that every call in flight assigns:
\* a call passes on the vector of whichever call embedded, not its own.
SharedVector(c) ==
  LET others == {d \in BagToSet(flight) : d # c /\ d.vec # NoVal}
  IN IF others = {} THEN c.vec ELSE (CHOOSE d \in others : TRUE).vec

\* The calls in flight, and the calls in flight but for one call c.
InFlight == BagToSet(flight)

Without(c) == flight (-) SetToBag({c})

\* The vector a call passes to the vector store: its own local `vector`.
VectorOf(c) == c.vec

\* The collaborator calls a call in flight has made when it awaits pc.
CallsAt(c) ==
  CASE c.pc = "embed" -> <<"embed">>
    [] c.pc = "create" -> <<"embed", "createTableIfNotExists">>
    [] c.pc = "insert" -> <<"embed", "createTableIfNotExists", "insertVector">>
    [] OTHER -> <<"embed", "search">>

\* The call leaves the set of calls in flight, rejecting with the error e of
\* its collaborator through its catch block.
Rejects(c, e, file) ==
  /\ flight' = Without(c)
  /\ Settle(c.inst, c.op, c.req,
            [Cur(c.inst) EXCEPT !.calls = CallsAt(c), !.vfile = file,
                                !.collab = e, !.err = Catch(c.op, e)])

\* The call leaves the set of calls in flight, resolving with res.
Resolves(c, res, file, ret) ==
  /\ flight' = Without(c)
  /\ Settle(c.inst, c.op, c.req,
            [Cur(c.inst) EXCEPT !.calls = CallsAt(c), !.vfile = file, !.res = res,
                                !.ret = ret])

\* The call goes on to await the next collaborator: it calls a method of
\* the vector store, whose not-initialized guard runs now, on the fields the
\* store has now.
Awaits(c, pc, vec) ==
  /\ flight' = Without(c) (+) SetToBag({[c EXCEPT !.pc = pc, !.vec = vec,
                                                  !.store = vdb[c.inst]]})
  /\ UNCHANGED <<config, initialized, emb, vdb, doc, rows, last, closedOnce, saved,
                 asked>>

\* A call is made: it rejects at once, or calls embeddingService.embed and
\* awaits it.  The guard of embed runs in the call, on the fields the engine
\* has now (engine); open tells whether the collaborators of the module were
\* open when the call was made.
Begin(i) ==
  /\ IsPlain(i)
  /\ BagCardinality(flight) < MaxFlight
  /\ \E op \in {"embed", "save", "search"} : \E req \in FlightRequests(op) :
       \/ /\ Rejection(i, op, req) # NoErr
          /\ Call(i, op, req, [Cur(i) EXCEPT !.err = Rejection(i, op, req)])
       \/ /\ Rejection(i, op, req) = NoErr
          /\ flight' = flight (+) SetToBag({[inst |-> i, op |-> op, req |-> req,
                                     v |-> Validated(op, req), pc |-> "embed",
                                     vec |-> NoVal, engine |-> emb,
                                     store |-> vdb[i],
                                     open |-> /\ emb.initialized /\ emb.ctx
                                              /\ vdb[i].initialized /\ vdb[i].db,
                                     file0 |-> IF op = "search" THEN vfile[i]
                                               ELSE EmptyMap]})
          /\ UNCHANGED <<config, initialized, emb, vdb, vfile, doc, rows, last,
                         closedOnce, saved, asked>>

\* embeddingService.embed settles.
EmbedSettles(c) ==
  /\ c.pc = "embed"
  /\ \E o \in Outs :
       LET r == EmbEmbed(c.engine, c.v.text, o)
       IN \/ r.err # NoErr /\ Rejects(c, r.err, vfile[c.inst])
          \/ /\ r.err = NoErr /\ c.op = "embed"
             /\ Resolves(c, Res("vector", r.val.of), vfile[c.inst], Undef)
          \/ /\ r.err = NoErr /\ c.op = "save"
             /\ Awaits(c, "create", r.val) /\ UNCHANGED vfile
          \/ /\ r.err = NoErr /\ c.op = "search"
             /\ Awaits(c, "search", r.val) /\ UNCHANGED vfile

\* vectorDatabase.createTableIfNotExists settles.
CreateSettles(c) ==
  /\ c.pc = "create"
  /\ \E o \in Outs :
       LET t == VdbCreateTable(c.store, vfile[c.inst], c.v.tablename, o)
       IN \/ t.err # NoErr /\ Rejects(c, t.err, vfile[c.inst])
          \/ /\ t.err = NoErr
             /\ Awaits(c, "insert", c.vec)
             /\ vfile' = [vfile EXCEPT ![c.inst] = t.file]

\* vectorDatabase.insertVector settles.
InsertSettles(c) ==
  /\ c.pc = "insert"
  /\ \E o \in InsertOuts :
       LET w == VdbInsertVector(c.store, vfile[c.inst], c.v.tablename,
                                NumVal(c.v.id), VectorOf(c), o)
       IN \/ w.err # NoErr /\ Rejects(c, w.err, w.file)
          \/ w.err = NoErr /\ Resolves(c, SaveResult(w.val), w.file, w.val)

\* vectorSearchService.search settles.
SearchSettles(c) ==
  /\ c.pc = "search"
  /\ \E o \in Outs :
       \E s \in VectorSearch(c.store, vfile[c.inst], c.v.tablename,
                             VectorOf(c), c.v.qty, o) :
         \/ s.err # NoErr /\ Rejects(c, s.err, vfile[c.inst])
         \/ s.err = NoErr /\ Resolves(c, Res("array", s.val), vfile[c.inst], Undef)

NotConstructed == [variant |-> "none", modelPath |-> "", databasePath |-> ""]

\* A process that has constructed one module, of any variant.
\* The state after construction, whatever the calls will be made with.
Constructed ==
  /\ config \in {[i \in Inst |-> IF i = "A"
                    THEN [variant |-> v, modelPath |-> "model.gguf",
                          databasePath |-> "rag.db"]
                    ELSE NotConstructed] : v \in Variants}
  /\ initialized = [i \in Inst |-> FALSE]
  /\ emb = EmbNew
  /\ vdb = [i \in Inst |-> VdbNew]
  /\ vfile = [i \in Inst |-> EmptyMap]
  /\ doc = [i \in Inst |-> DocNew]
  /\ rows = [i \in Inst |-> EmptyMap]
  /\ last = [op |-> "new", inst |-> "A", wasInit |-> FALSE, invalid |-> FALSE,
             noText |-> FALSE, err |-> NoErr, res |-> Undef, calls |-> <<>>,
             collab |-> NoErr, ret |-> Undef]
  /\ closedOnce = [i \in Inst |-> FALSE]
  /\ flight = EmptyBag
  /\ saved = [i \in Inst |-> EmptyMap]

\* The calls of these behaviours choose their arguments as they are made.
Init == Constructed /\ asked = NoReq

Next ==
  \E i \in Inst :
    \/ Initialize(i)
    \/ Close(i)
    \/ Embed(i)
    \/ Save(i)
    \/ Search(i)
    \/ SaveDocument(i)
    \/ SearchDocuments(i)
    \/ UpdateDocument(i)
    \/ DeleteDocument(i)
    \/ GetDocument(i)

Spec == Init /\ [][Next]_vars

\* A process that has constructed one RAGModule and lets its calls overlap.
InitFlight == Init /\ IsPlain("A")

NextFlight ==
  \/ \E i \in Inst :
       IsPlain(i) /\ \E r \in RAGInitialize(i) : Call(i, "initialize", NoReq, r)
  \/ \E i \in Inst : Begin(i)
  \/ \E c \in InFlight : EmbedSettles(c)
  \/ \E c \in InFlight : CreateSettles(c)
  \/ \E c \in InFlight : InsertSettles(c)
  \/ \E c \in InFlight : SearchSettles(c)

SpecFlight == InitFlight /\ [][NextFlight]_vars

\* ------------------------------------------------------------------------
\* A hybrid module whose documents table takes several documents: documents
\* of two contents are saved and deleted, and one query is searched for.
\* ------------------------------------------------------------------------
\* The most rows the documents table is given here.
MaxRanked == 2

RankedSaveRequests == [content : {Str(<<"a">>), Str(<<"b">>)}, tablename : {Str(<<"t">>)}]

RankedSearchRequests ==
  [text : {Str(<<"a">>)}, tablename : {Str(<<"t">>)}, qty : {Int2Num(1), Int2Num(1000)}]

RankedRowRequests == [tablename : {Str(<<"t">>)}, id : {Int2Num(k) : k \in 1..MaxRanked}]

RankedInitialize(i) ==
  IsHybrid(i) /\ \E r \in HybridInitialize(i) : Call(i, "initialize", NoReq, r)

RankedSaveDocument(i) ==
  /\ IsHybrid(i)
  /\ \E req \in RankedSaveRequests :
       /\ HasTable(rows[i], req.tablename) => rows[i][req.tablename.v].next <= MaxRanked
       /\ \E r \in HybridSaveDocument(i, req) : Call(i, "saveDocument", req, r)

RankedSearchDocuments(i) ==
  /\ IsHybrid(i)
  /\ \E req \in RankedSearchRequests :
       \E r \in HybridSearchDocuments(i, req) : Call(i, "searchDocuments", req, r)

RankedDeleteDocument(i) ==
  /\ IsHybrid(i)
  /\ \E req \in RankedRowRequests :
       \E r \in HybridDeleteDocument(i, req) : Call(i, "deleteDocument", req, r)

InitRanked == Init /\ IsHybrid("A")

NextRanked ==
  \E i \in Inst :
    \/ RankedInitialize(i)
    \/ RankedSaveDocument(i)
    \/ RankedSearchDocuments(i)
    \/ RankedDeleteDocument(i)

SpecRanked == InitRanked /\ [][NextRanked]_vars

\* ------------------------------------------------------------------------
\* Properties.
\* ------------------------------------------------------------------------
\* The operations of the plain module that take a request.
PlainOps == {"embed", "save", "search"}

\* The document operations of the hybrid modules.
DocumentOps ==
  {"saveDocument", "searchDocuments", "updateDocument", "deleteDocument", "getDocument"}

GateMessages ==
  {<<"RAG module not initialized">>, <<"Hybrid RAG module not initialized">>,
   <<"PostgreSQL Hybrid RAG module not initialized">>}

LastIsPlain == config[last.inst].variant = "plain"

\* How often the collaborator method c occurs in the call log calls.
Count(calls, c) == Cardinality({k \in 1..Len(calls) : calls[k] = c})

CloseCalls == {"embedding.close", "database.close", "documents.close"}

StoreCalls == {"createTableIfNotExists", "insertVector", "search"}

\* C1: when the lifecycle flag of the instance is not Initialized, embed,
\* save, search and every hybrid document operation reject with
\* INVALID_INPUT and a 'not initialized' message, whatever the request, and
\* call no collaborator.
C1_GateRejectsUninitialized ==
  (last.op \in PlainOps \cup DocumentOps /\ ~last.wasInit) =>
    /\ last.err.kind = "INVALID_INPUT"
    /\ last.err.msg \in GateMessages
    /\ last.calls = <<>>

\* A saveDocument without content on a hybrid instance that is not
\* Initialized, rejected by the gate.
C1_Witness ==
  /\ last.op = "saveDocument"
  /\ ~last.wasInit
  /\ last.noText
  /\ last.err.kind = "INVALID_INPUT"
  /\ last.err.msg \in GateMessages

\* C2: an initialize() that fails, at the load of the embedding engine or at
\* the connection of the vector store, leaves the flag not Initialized, and
\* the flag of an instance becomes Initialized only by an initialize() of
\* that instance that succeeded (until then the gate of C1 rejects).
C2_FailedInitializeStaysUninitialized ==
  [][/\ (last'.op = "initialize" /\ last'.err # NoErr) => ~initialized'[last'.inst]
     /\ \A i \in Inst :
          (~initialized[i] /\ initialized'[i]) =>
            (last'.op = "initialize" /\ last'.inst = i /\ last'.err = NoErr)]_vars

\* An initialize() of the plain module that loaded the engine and failed at
\* the connection of the vector store.
C2_Witness ==
  /\ last.op = "initialize"
  /\ LastIsPlain
  /\ last.calls = <<"embedding.initialize", "database.initialize">>
  /\ last.err # NoErr
  /\ ~initialized[last.inst]

\* A RAGError somewhere in the cause chain of e has a RAGError as its cause.
RECURSIVE Rewrapped(_)
Rewrapped(e) ==
  /\ e.cause # <<>>
  /\ \/ IsRAGError(e) /\ IsRAGError(e.cause[1])
     \/ Rewrapped(e.cause[1])

\* C3: a taxonomy error is never wrapped again, at any layer of any variant:
\* the error a call rejects with is the taxonomy error the collaborator
\* raised, and no RAGError carries a RAGError as its cause.
C3_NeverRewrapped ==
  /\ ~Rewrapped(last.err)
  /\ IsRAGError(last.collab) => last.err = last.collab

\* C4: in embed, save and search of the plain module a taxonomy error of the
\* embedding collaborator or of the vector search service reaches the caller
\* unchanged.
C4_TaxonomyErrorSurfacesUnchanged ==
  (LastIsPlain /\ last.op \in PlainOps /\ IsRAGError(last.collab)) =>
    last.err = last.collab

\* A save whose embedding step rejected with the engine's own
\* EMBEDDING_FAILED, which the caller receives.
C4_Witness ==
  /\ LastIsPlain
  /\ last.op = "save"
  /\ last.calls = <<"embed">>
  /\ last.collab.kind = "EMBEDDING_FAILED"
  /\ last.err.kind = "EMBEDDING_FAILED"

\* C5: every rejection of embed, save or search on an Initialized instance
\* is a taxonomy error, also when the text is missing or not a string.
C5_RejectionsAreTaxonomyErrors ==
  (LastIsPlain /\ last.op \in PlainOps /\ last.wasInit /\ last.err # NoErr) =>
    IsRAGError(last.err)

\* C6: a save or search of the plain module with an invalid request field
\* rejects with INVALID_INPUT before any collaborator is called.
C6_InvalidRejectedBeforeCollaborators ==
  (LastIsPlain /\ last.op \in {"save", "search"} /\ last.wasInit /\ last.invalid) =>
    /\ last.err.kind = "INVALID_INPUT"
    /\ last.calls = <<>>

\* C7: embed calls no method of the vector store and leaves every
\* collection, and the connection of the store, as they were.
C7_EmbedLeavesStoreAlone ==
  [][last'.op = "embed" =>
       /\ vfile' = vfile
       /\ vdb' = vdb
       /\ \A k \in 1..Len(last'.calls) : last'.calls[k] \notin StoreCalls]_vars

\* An embed that resolved with a vector on an instance whose store holds a
\* collection with a vector in it.
C7_Witness ==
  /\ last.op = "embed"
  /\ last.res.t = "vector"
  /\ \E tb \in DOMAIN vfile[last.inst] : vfile[last.inst][tb] # EmptyMap

\* C8: initialize() on an instance that is Initialized calls no collaborator,
\* resolves, and leaves the flag Initialized.
C8_InitializeAgainIsNoOp ==
  (last.op = "initialize" /\ last.wasInit) =>
    /\ last.calls = <<>>
    /\ last.err = NoErr
    /\ initialized[last.inst]

\* An initialize() on an Initialized instance.
C8_Witness ==
  /\ last.op = "initialize"
  /\ last.wasInit
  /\ initialized[last.inst]

\* C9: of two close() calls in a row on an Initialized instance the second
\* calls no collaborator, and each collaborator's close is called once in
\* total.
C9_SecondCloseFiresNothing ==
  [][(/\ last.op = "close" /\ last.wasInit
      /\ last'.op = "close" /\ last'.inst = last.inst) =>
       /\ last'.calls = <<>>
       /\ \A c \in CloseCalls : Count(last.calls \o last'.calls, c) <= 1
       /\ Count(last.calls \o last'.calls, "embedding.close") = 1
       /\ Count(last.calls \o last'.calls, "database.close") = 1]_vars

C11_FailureKeepsInitialized ==
  [][/\ (last'.op \in PlainOps /\ last'.wasInit /\ last'.err # NoErr) =>
          /\ initialized'[last'.inst]
          /\ initialized' = initialized
          /\ emb' = emb
          /\ vdb' = vdb
     /\ (/\ last.op \in PlainOps /\ last.wasInit /\ last.err # NoErr
         /\ last'.op \in PlainOps /\ last'.inst = last.inst
         /\ ~last'.invalid /\ ~last'.noText /\ last'.collab = NoErr) =>
          last'.err = NoErr]_vars

\* A save that failed in the vector store on an Initialized instance, which
\* is Initialized afterwards.
C11_Witness ==
  /\ last.op = "save"
  /\ last.wasInit
  /\ last.calls = <<"embed", "createTableIfNotExists", "insertVector">>
  /\ last.err.kind = "VECTOR_SAVE_FAILED"
  /\ initialized[last.inst]

\* The kind under which a method of the plain module wraps a foreign error.
WrapKind(op) ==
  CASE op = "embed" -> "EMBEDDING_FAILED"
    [] op = "save" -> "VECTOR_SAVE_FAILED"
    [] op = "search" -> "SEARCH_FAILED"
    [] OTHER -> "none"

\* C12: when a collaborator of embed, save or search raises an error that is
\* not a taxonomy error, the call rejects with the kind of its operation
\* (EMBEDDING_FAILED, VECTOR_SAVE_FAILED, SEARCH_FAILED) and with the
\* collaborator's error as cause.
C12_ForeignErrorWrappedByOperation ==
  (/\ LastIsPlain /\ last.op \in PlainOps
   /\ last.collab # NoErr /\ ~IsRAGError(last.collab)) =>
    /\ last.err.kind = WrapKind(last.op)
    /\ last.err.cause = <<last.collab>>

\* A search whose embedding step raised a foreign error, surfaced as
\* SEARCH_FAILED with that error as cause.
C12_Witness ==
  /\ LastIsPlain
  /\ last.op = "search"
  /\ last.calls = <<"embed">>
  /\ last.collab = Thrown
  /\ last.err.kind = "SEARCH_FAILED"
  /\ last.err.cause = <<Thrown>>

\* The error at the end of the cause chain of e.
RECURSIVE RootCause(_)
RootCause(e) == IF e.cause = <<>> THEN e ELSE RootCause(e.cause[1])

\* The failure of the call, if any, is not one the environment injected
\* into a driver or a collaborator.
NothingInjected == RootCause(last.err) \notin {DriverError, Thrown}

\* The last call was a search of the plain module, on an Initialized
\* instance, that reached the vector search.
SearchReachedStore ==
  /\ LastIsPlain
  /\ last.op = "search"
  /\ last.wasInit
  /\ last.calls = <<"embed", "search">>

\* No collection of the instance's store holds a vector.
NoVectors(i) == \A tb \in DOMAIN vfile[i] : vfile[i][tb] = EmptyMap

\* C13 as the specification states it: a search against a collection that
\* is empty or was never created resolves with the empty list.
C13_SearchOfAbsentCollectionResolves ==
  (SearchReachedStore /\ NothingInjected /\ NoVectors(last.inst)) =>
    /\ last.err = NoErr
    /\ last.res = Res("array", <<>>)

\* C13: a search against a collection that exists and is empty resolves
\* with the empty list; a search against a collection that was never
\* created rejects with SEARCH_FAILED, the driver's 'no such table' error at
\* the end of its cause chain.
C13_SearchOfEmptyResolvesOfMissingRejects ==
  (SearchReachedStore /\ NothingInjected /\ NoVectors(last.inst)) =>
    IF vfile[last.inst] = EmptyMap
      THEN /\ last.err.kind = "SEARCH_FAILED"
           /\ RootCause(last.err) = NoSuchTable
      ELSE /\ last.err = NoErr
           /\ last.res = Res("array", <<>>)

\* A search on an Initialized instance whose store has no collection,
\* rejected with SEARCH_FAILED.
C13_Witness ==
  /\ SearchReachedStore
  /\ vfile[last.inst] = EmptyMap
  /\ last.err.kind = "SEARCH_FAILED"
  /\ RootCause(last.err) = NoSuchTable

\* C14: after any sequence of saves, overlapping ones included, every
\* collection holds, for every id a save resolved true for, exactly the
\* embedding of the text of the last such save of that id in that collection
\* (a collection is a map from id to vector: id is its PRIMARY KEY and the
\* statement INSERT OR REPLACE, so an id has one vector at most).
C14_StoredVectorIsOfLastCompletedSave ==
  \A i \in Inst : \A t \in DOMAIN saved[i] : \A id \in DOMAIN saved[i][t] :
    /\ t \in DOMAIN vfile[i]
    /\ id \in DOMAIN vfile[i][t]
    /\ vfile[i][t][id] = Embedding(saved[i][t][id])

\* A save of id 1 with text b has just resolved true while a save of the
\* same id with text a, embedded already, awaits its insertVector.
C14_Witness ==
  /\ last.op = "save" /\ last.err = NoErr /\ last.res = Res("boolean", <<TRUE>>)
  /\ <<"t">> \in DOMAIN saved["A"] /\ 1 \in DOMAIN saved["A"][<<"t">>]
  /\ saved["A"][<<"t">>][1] = <<"b">>
  /\ vfile["A"][<<"t">>][1] = Embedding(<<"b">>)
  /\ \E c \in InFlight :
       /\ c.op = "save" /\ c.pc = "insert" /\ c.v.id = Int2Num(1)
       /\ c.v.text = Str(<<"a">>)

\* The storage of instance i holds one vector only: the one a save of text
\* under id in collection t put there.
OnlySaved(i, t, id, text) ==
  /\ DOMAIN vfile[i] = {t} /\ DOMAIN vfile[i][t] = {id}
  /\ DOMAIN saved[i] = {t} /\ DOMAIN saved[i][t] = {id}
  /\ saved[i][t][id] = text

\* C15: when the storage of an instance holds nothing but the vector one
\* save of (id, text, tablename) put there, a search with that text, that
\* tablename and qty 1 that resolves, resolves with the list [id].
C15_SearchAfterSaveFindsTheId ==
  [][\A c \in InFlight : \A id \in {0, 1} :
       (/\ c.op = "search" /\ c.pc = "search" /\ flight' = Without(c)
        /\ c.v.qty = Int2Num(1)
        /\ OnlySaved(c.inst, c.v.tablename.v, id, c.v.text.v)
        /\ last'.err = NoErr)
         => last'.res = Res("array", <<id>>)]_vars

\* The search that followed the one save of (1, a, t) has resolved with [1],
\* no other call being in flight.
C15_Witness ==
  /\ flight = EmptyBag
  /\ last.op = "search" /\ last.err = NoErr /\ last.res = Res("array", <<1>>)
  /\ OnlySaved("A", <<"t">>, 1, <<"a">>)

\* A search c that resolved with res answered from the storage file: its
\* collection exists there and res is a ranking of that collection's rows
\* by distance to the embedding of the search's own text.
AnswerOn(file, c, res) ==
  /\ c.v.tablename.v \in DOMAIN file
  /\ res.t = "array"
  /\ res.v \in Ranked(file[c.v.tablename.v], Embedding(c.v.text.v), NumVal(c.v.qty))

\* What an embed or a save c that resolves in this step resolves with and
\* does: the embed gives the embedding of its own text; the save gives true
\* or false, and a save that gives true has put the embedding of its own
\* text under its own id and left every other row as it was.
OwnResult(c) ==
  /\ c.op = "embed" => last'.res = Res("vector", c.v.text.v)
  /\ c.op = "save" =>
       /\ last'.res \in {Res("boolean", <<TRUE>>), Res("boolean", <<FALSE>>)}
       /\ last'.res = Res("boolean", <<TRUE>>) =>
            /\ c.v.tablename.v \in DOMAIN vfile[c.inst]
            /\ vfile'[c.inst] =
                 Put(vfile[c.inst], c.v.tablename.v,
                     Put(vfile[c.inst][c.v.tablename.v], NumVal(c.v.id),
                         Embedding(c.v.text.v)))
       /\ last'.res # Res("boolean", <<TRUE>>) => vfile' = vfile

\* The call c leaves the set of calls in flight in this step, resolving.
ResolvesNow(c) == flight' = Without(c) /\ last'.err = NoErr

\* C16 (as stated): every overlapping call resolves with the result it would
\* have had alone, that is, run from the storage it was made on: also a
\* search, whose answer then is a ranking of the collection as it was when
\* the search was made.
C16_ResultAsIfAlone ==
  [][\A c \in InFlight : ResolvesNow(c) =>
       /\ OwnResult(c)
       /\ c.op = "search" => AnswerOn(c.file0, c, last'.res)]_vars

\* C16 (amended): an overlapping embed or save resolves with the result it
\* would have had alone and a save writes its own row only; an overlapping
\* search answers from the collection as it is when its vector search runs,
\* rows inserted by saves since the search was made included, and rejects
\* for a missing collection only when the collection is missing then.
C16_ResultAsIfAloneAtItsLastStep ==
  [][\A c \in InFlight :
       /\ ResolvesNow(c) =>
            /\ OwnResult(c)
            /\ c.op = "search" => AnswerOn(vfile[c.inst], c, last'.res)
       /\ (/\ flight' = Without(c) /\ c.op = "search"
           /\ RootCause(last'.err) = NoSuchTable) =>
            c.v.tablename.v \notin DOMAIN vfile[c.inst]]_vars

\* A save has resolved true and put its row in a collection that did not
\* exist when a search, still in flight and about to run its vector search,
\* was made.
C16_Witness ==
  /\ last.op = "save" /\ last.err = NoErr /\ last.res = Res("boolean", <<TRUE>>)
  /\ \E c \in InFlight :
       /\ c.op = "search" /\ c.pc = "search" /\ c.file0 = EmptyMap
       /\ c.v.tablename.v \in DOMAIN vfile[c.inst]
       /\ vfile[c.inst][c.v.tablename.v] # EmptyMap

\* C17: a saveDocument that resolves, resolves with the id of a row that is
\* new in a documents table, and the vector collection of that name then
\* holds, under that same id, the embedding of the row's content; no other
\* vector of the collection has changed.
C17_RowAndVectorShareTheReturnedId ==
  [][\A i \in Inst :
       (last'.op = "saveDocument" /\ last'.inst = i /\ last'.err = NoErr) =>
         \E t \in DOMAIN rows'[i] :
           LET n == NumVal(last'.res)
           IN /\ n \in DOMAIN rows'[i][t].docs
              /\ t \in DOMAIN rows[i] => n \notin DOMAIN rows[i][t].docs
              /\ t \in DOMAIN vfile'[i]
              /\ n \in DOMAIN vfile'[i][t]
              /\ vfile'[i][t][n] = Embedding(rows'[i][t].docs[n])
              /\ \A m \in DOMAIN vfile'[i][t] \ {n} :
                   /\ t \in DOMAIN vfile[i]
                   /\ m \in DOMAIN vfile[i][t]
                   /\ vfile'[i][t][m] = vfile[i][t][m]]_vars

\* A saveDocument has resolved with id 1; row 1 and vector 1 are there.
C17_Witness ==
  /\ last.op = "saveDocument" /\ last.err = NoErr /\ last.res = Int2Num(1)
  /\ \E t \in DOMAIN rows[last.inst] :
       /\ 1 \in DOMAIN rows[last.inst][t].docs
       /\ t \in DOMAIN vfile[last.inst]
       /\ 1 \in DOMAIN vfile[last.inst][t]

\* C18: after a deleteDocument that resolves with true, the id it deleted
\* has no row in the documents table and no vector in the vector collection
\* of that name.
C18_DeletedIdIsInNeitherStore ==
  [][\A i \in Inst :
       (/\ last'.op = "deleteDocument" /\ last'.inst = i /\ last'.err = NoErr
        /\ last'.res = Res("boolean", <<TRUE>>)) =>
         \A t \in DOMAIN rows[i] : \A n \in DOMAIN rows[i][t].docs :
           n \notin DOMAIN rows'[i][t].docs =>
             ~(t \in DOMAIN vfile'[i] /\ n \in DOMAIN vfile'[i][t])]_vars

\* C19: after an updateDocument that resolves with true and has changed the
\* content of a document, the vector stored under the document's id is the
\* embedding of the new content, whatever the new content is.
C19_NewContentIsReembedded ==
  [][\A i \in Inst :
       (/\ last'.op = "updateDocument" /\ last'.inst = i /\ last'.err = NoErr
        /\ last'.res = Res("boolean", <<TRUE>>)) =>
         \A t \in DOMAIN rows[i] : \A n \in DOMAIN rows[i][t].docs :
           rows'[i][t].docs[n] # rows[i][t].docs[n] =>
             /\ t \in DOMAIN vfile'[i]
             /\ n \in DOMAIN vfile'[i][t]
             /\ vfile'[i][t][n] = Embedding(rows'[i][t].docs[n])]_vars

\* C20: a document operation of an initialized hybrid module whose request
\* has a field its validator refuses (for updateDocument, deleteDocument and
\* getDocument: the tablename) rejects with INVALID_INPUT and calls no
\* store.  (Requests of saveDocument and searchDocuments without a text are
\* left out: they fail before the validator runs.)
C20_InvalidTablenameReachesNoStore ==
  [][(/\ last'.op \in DocumentOps /\ last'.wasInit /\ last'.invalid
      /\ last'.op \in {"saveDocument", "searchDocuments"} => ~last'.noText) =>
       /\ last'.calls = <<>>
       /\ last'.err # NoErr
       /\ last'.err.kind = "INVALID_INPUT"]_vars

\* The ids of the documents of a searchDocuments result, in its order.
IdsOf(res) == [k \in 1..Len(res.v) |-> res.v[k].id]

\* The rankings the vector search of collection t can give for the query
\* text a, with qty 1 or qty 1000.
RankingsOf(i, t) ==
  UNION { Ranked(vfile[i][t], Embedding(<<"a">>), q) : q \in {1, 1000} }

\* C21: a searchDocuments that resolves with documents resolves with them in
\* the order of the vector search's id list: their ids are the ids of one
\* ranking of the collection by distance to the query, those without a row
\* left out and the order of the others kept.
C21_DocumentsInRankingOrder ==
  [][\A i \in Inst :
       (/\ last'.op = "searchDocuments" /\ last'.inst = i /\ last'.err = NoErr
        /\ last'.res # Res("array", <<>>)) =>
         \E t \in DOMAIN vfile[i] \cap DOMAIN rows[i] :
           \E s \in RankingsOf(i, t) :
             IdsOf(last'.res) = SelectSeq(s, LAMBDA k : k \in DOMAIN rows[i][t].docs)]_vars

\* A search for a has resolved with document 2 before document 1: document 2
\* has the content a, document 1 has not.
C21_Witness ==
  /\ last.op = "searchDocuments" /\ last.err = NoErr
  /\ Len(last.res.v) = 2
  /\ IdsOf(last.res) = <<2, 1>>
  /\ last.res.v[1].content = <<"a">> /\ last.res.v[2].content = <<"b">>

\* C22: a save that resolves, resolves with the boolean its insertVector
\* resolved with: true for true, false for false.
C22_SaveReturnsTheStoreResult ==
  [][(last'.op = "save" /\ last'.err = NoErr) =>
       /\ last'.ret \in BOOLEAN
       /\ last'.res = Res("boolean", <<last'.ret>>)]_vars

\* A save has resolved with false: its insertVector resolved with false.
C22_Witness ==
  /\ last.op = "save" /\ last.err = NoErr /\ last.ret = FALSE
  /\ last.res = Res("boolean", <<FALSE>>)
  /\ last.calls = <<"embed", "createTableIfNotExists", "insertVector">>

\* ------------------------------------------------------------------------
\* One request, every way the plain module can handle it: the request is
\* chosen when the behaviour starts and every save or search is made with it.
\* ------------------------------------------------------------------------
\* rag.save(asked)
SaveAsked(i) ==
  /\ asked \in SaveRequests
  /\ \E r \in RAGSave(i, asked) : Call(i, "save", asked, r)

\* rag.search(asked)
SearchAsked(i) ==
  /\ asked \in SearchRequests
  /\ \E r \in RAGSearch(i, asked) : Call(i, "search", asked, r)

\* The characters names are made of: a lower-case and an upper-case letter, a
\* digit, the two separators, the space and a character outside the grammar.
NameChars == {"a", "J", "1", "_", "-", Space, "!"}

MaxName == 3

\* The strings validateTableName is given: every string of at most MaxName
\* characters, the reserved word in three spellings and between spaces, and
\* names of 64 and 65 characters, the first of them also after a space.
TableNames ==
  {Str(s) : s \in UNION {[1..n -> NameChars] : n \in 0..MaxName}}
    \cup {Str(<<"j", "o", "i", "n">>), Str(<<"J", "O", "I", "N">>),
          Str(<<"J", "o", "i", "n">>), Str(<<Space, "j", "o", "i", "n", Space>>),
          Str([k \in 1..MAX_TABLE_NAME_LENGTH |-> "a"]),
          Str([k \in 1..(MAX_TABLE_NAME_LENGTH + 1) |-> "a"]),
          Str(<<Space>> \o [k \in 1..MAX_TABLE_NAME_LENGTH |-> "a"])}

\* InputValidator.validateTableName(asked)
ValidateAsked ==
  /\ asked \in TableNames
  /\ last' = [last EXCEPT !.op = "validateTableName",
                          !.err = validateTableName(asked).err,
                          !.res = validateTableName(asked).val]
  /\ UNCHANGED <<config, initialized, emb, vdb, vfile, doc, rows, closedOnce, flight,
                 saved, asked>>

InitInputs ==
  /\ Constructed
  /\ IsPlain("A")
  /\ asked \in SaveRequests \cup SearchRequests \cup TableNames

NextInputs ==
  \/ \E i \in Inst :
       \/ IsPlain(i) /\ \E r \in RAGInitialize(i) : Call(i, "initialize", NoReq, r)
       \/ SaveAsked(i)
       \/ SearchAsked(i)
  \/ ValidateAsked

SpecInputs == InitInputs /\ [][NextInputs]_vars

\* The first field of a save request, in the order text, id, tablename, that
\* its validator refuses, and the error of that validator.
FirstRefusal(req) ==
  IF validateText(req.text, "text").err # NoErr THEN validateText(req.text, "text").err
  ELSE IF validateId(req.id).err # NoErr THEN validateId(req.id).err
  ELSE validateTableName(req.tablename).err

\* C23: a save of an initialized module with a request that has more than
\* one invalid field rejects with the INVALID_INPUT error of the first
\* invalid field in the order text, id, tablename.
C23_FirstInvalidFieldIsReported ==
  [][(last'.op = "save" /\ last'.wasInit /\ Cardinality(BadFields(asked)) > 1) =>
       last'.err = FirstRefusal(asked)]_vars

\* The same for the requests that have a text (of any type).
C23_FirstInvalidFieldIsReportedGivenText ==
  [][(last'.op = "save" /\ last'.wasInit /\ Cardinality(BadFields(asked)) > 1
        /\ asked.text # Undef) =>
       last'.err = FirstRefusal(asked)]_vars

\* A save whose text and tablename are refused reported the text, one whose
\* id and tablename are refused reported the id.
C23_Reached ==
  /\ last.op = "save" /\ last.wasInit
  /\ BadFields(asked) = {"id", "tablename"}
  /\ last.err = validateId(asked.id).err

\* The grammar of a table name: ^[A-Za-z][A-Za-z0-9_-]*$, at most 64
\* characters, not a reserved word in any case.
IsTableName(s) ==
  /\ Len(s) \in 1..64
  /\ s[1] \in Letters
  /\ \A k \in 2..Len(s) : s[k] \in Letters \cup Digits \cup {"_", "-"}
  /\ ToUpperCase(s) \notin reservedWords

\* C24 as stated: validateTableName accepts exactly the strings of the
\* grammar and returns them as given; every other string, one that is of the
\* grammar only after trimming included, is rejected with INVALID_INPUT.
C24_AcceptsExactlyTheGrammar ==
  [][last'.op = "validateTableName" =>
       IF IsTableName(asked.v)
         THEN last'.err = NoErr /\ last'.res = asked
         ELSE last'.err.kind = "INVALID_INPUT"]_vars

\* C24, amended: validateTableName accepts exactly the strings whose trimmed
\* form is of the grammar and returns the trimmed form (the string itself
\* when it has no surrounding whitespace); every other string is rejected
\* with INVALID_INPUT.
C24_AcceptsExactlyTheGrammarAfterTrim ==
  [][last'.op = "validateTableName" =>
       IF IsTableName(Trim(asked.v))
         THEN last'.err = NoErr /\ last'.res = Str(Trim(asked.v))
         ELSE last'.err.kind = "INVALID_INPUT"]_vars

\* A name between spaces was accepted and returned without them.
C24_Witness ==
  /\ last.op = "validateTableName"
  /\ asked = Str(<<Space, "a", Space>>)
  /\ last.err = NoErr
  /\ last.res = Str(<<"a">>)

\* The search went on to the embedding and search steps: embed was called,
\* and search after it unless embed failed.
Proceeded ==
  \/ last'.calls = <<"embed", "search">>
  \/ last'.calls = <<"embed">> /\ last'.collab # NoErr

\* C25: a search whose qty is not an integer in [1, 1000] rejects with
\* INVALID_INPUT before any collaborator call, and a search of an initialized
\* module with qty 1 or 1000 and otherwise valid fields goes on to the
\* embedding and search steps.
C25_QuantityBounds ==
  [][last'.op = "search" =>
       /\ "qty" \in BadFields(asked) =>
            last'.err.kind = "INVALID_INPUT" /\ last'.calls = <<>>
       /\ (last'.wasInit /\ BadFields(asked) = {}
             /\ asked.qty \in {Int2Num(1), Int2Num(1000)}) => Proceeded]_vars

\* The same for the requests that have a text (of any type).
C25_QuantityBoundsGivenText ==
  [][(last'.op = "search" /\ asked.text # Undef) =>
       /\ "qty" \in BadFields(asked) =>
            last'.err.kind = "INVALID_INPUT" /\ last'.calls = <<>>
       /\ (last'.wasInit /\ BadFields(asked) = {}
             /\ asked.qty \in {Int2Num(1), Int2Num(1000)}) => Proceeded]_vars

\* A search with qty 1000 reached the store, one with qty 1001 and otherwise
\* valid fields was refused.
C25_Reached ==
  /\ last.op = "search" /\ last.wasInit
  /\ \/ asked.qty = Int2Num(1000) /\ last.calls = <<"embed", "search">>
     \/ asked.qty = Int2Num(1001) /\ BadFields(asked) = {"qty"}
          /\ last.err.kind = "INVALID_INPUT"

\* C26: a saveDocument or updateDocument of a hybrid module that rejects
\* with INVALID_INPUT has written nothing: no documents table created, no row
\* inserted or updated, no vector written, for every content value.
C26_InvalidInputWritesNothing ==
  [][(last'.op \in {"saveDocument", "updateDocument"}
        /\ last'.err.kind = "INVALID_INPUT") =>
       /\ rows' = rows
       /\ vfile' = vfile
       /\ last'.calls = <<>>]_vars

\* ------------------------------------------------------------------------
\* Overlapping calls of initialize() on one plain module.  A call runs to its
\* first await, and goes on when the collaborator it awaits settles; flight
\* holds the calls that are awaiting: [inst, op, pc, skip, calls], pc the
\* collaborator awaited, skip whether that collaborator returned at its own
\* already-initialized check.
\* ------------------------------------------------------------------------
MaxBoot == 3

\* initialize() up to await this.embeddingService.initialize(modelPath): the
\* check of the flag, then the engine's own check and this.modelPath = ..
BeginInitialize(i) ==
  /\ IsPlain(i)
  /\ BagCardinality(flight) < MaxBoot
  /\ IF AlreadyInitialized(i)
       THEN Call(i, "initialize", NoReq, Cur(i))
       ELSE LET skip == emb.initialized /\ emb.modelPath = config[i].modelPath
            IN /\ flight' = flight (+) SetToBag({[inst |-> i, op |-> "initialize",
                                                 pc |-> "engine", skip |-> skip,
                                                 calls |-> <<"embedding.initialize">>]})
               /\ emb' = IF skip THEN emb
                         ELSE [emb EXCEPT !.modelPath = config[i].modelPath]
               /\ UNCHANGED <<config, initialized, vdb, vfile, doc, rows, last,
                              closedOnce, saved, asked>>

\* The call rejects with the error e of a collaborator; the flag stays as it
\* is.
BootRejects(c, e, engine, store) ==
  /\ flight' = Without(c)
  /\ Settle(c.inst, c.op, NoReq,
            [Cur(c.inst) EXCEPT !.emb = engine, !.vdb = store, !.calls = c.calls,
               !.collab = e,
               !.err = RethrowOrWrap(e, "Failed to initialize RAG module: ",
                                     "MODEL_LOAD_FAILED")])

\* embeddingService.initialize settles: the load this call started ends
\* whatever the engine's flag has become meanwhile.  On success the call goes
\* on to await this.databaseService.initialize(databasePath).
EngineSettles(c) ==
  /\ c.pc = "engine"
  /\ \E o \in ServiceOuts :
       LET r == IF c.skip THEN [st |-> emb, err |-> NoErr]
                ELSE EmbInitialize([emb EXCEPT !.initialized = FALSE],
                                   config[c.inst].modelPath, o)
           d == vdb[c.inst]
       IN IF r.err # NoErr THEN BootRejects(c, r.err, r.st, d)
          ELSE /\ emb' = r.st
               /\ flight' = Without(c) (+) SetToBag({[c EXCEPT
                    !.pc = "store",
                    !.skip = d.initialized
                               /\ d.databasePath = config[c.inst].databasePath,
                    !.calls = c.calls \o <<"database.initialize">>]})
               /\ UNCHANGED <<config, initialized, vdb, vfile, doc, rows, last,
                              closedOnce, saved, asked>>

\* databaseService.initialize settles: on success this.initialized = true
\* and the call resolves.
StoreSettles(c) ==
  /\ c.pc = "store"
  /\ \E o \in Outs2 \ {"throws"} :
       LET d == IF c.skip THEN [st |-> vdb[c.inst], err |-> NoErr]
                ELSE VdbInitialize([vdb[c.inst] EXCEPT !.initialized = FALSE],
                                   config[c.inst].databasePath, o)
       IN IF d.err # NoErr THEN BootRejects(c, d.err, emb, d.st)
          ELSE /\ flight' = Without(c)
               /\ Settle(c.inst, c.op, NoReq,
                         [Cur(c.inst) EXCEPT !.vdb = d.st, !.calls = c.calls,
                            !.flag = InitializedAfter(NoErr, d.err)])

NextBoot ==
  \/ \E i \in Inst : BeginInitialize(i)
  \/ \E c \in InFlight : EngineSettles(c) \/ StoreSettles(c)

SpecBoot == InitFlight /\ [][NextBoot]_vars

\* A call of initialize() returned at its first statement: it settled without
\* having awaited anything.
ReturnedAtOnce == last' # last /\ flight' = flight

\* C27: an initialize() that starts while the first initialize() of the
\* instance has not completed passes the already-initialized check and
\* invokes the engine's initialize as the first did; the flag is set only by
\* an initialize() that completes, and an initialize() returns at once only
\* when the flag is set.
C27_OverlappingInitializeLoadsTwice ==
  [][/\ ReturnedAtOnce => initialized[last'.inst]
     /\ \A i \in Inst : (~initialized[i] /\ initialized'[i]) =>
          /\ last'.op = "initialize" /\ last'.inst = i /\ last'.err = NoErr
          /\ BagCardinality(flight') < BagCardinality(flight)
     /\ (last.op = "new" /\ flight # EmptyBag /\ flight' # flight /\ last' = last) =>
          \A c \in BagToSet(flight') :
            c.op = "initialize" /\ c.calls[1] = "embedding.initialize"]_vars

\* Two calls of initialize() are awaiting the engine's load, each having
\* started its own, and no call has completed.
C27_Witness ==
  /\ last.op = "new"
  /\ BagCardinality(flight) = 2
  /\ \A c \in InFlight : c.pc = "engine" /\ ~c.skip

\* The releases of close(), in order.
Releases(i) ==
  IF IsPlain(i) THEN <<"embedding.close", "database.close">>
  ELSE <<"embedding.close", "database.close", "documents.close">>

\* C28: a close() of an initialized module attempts every release, the
\* embedding engine, then the vector store, then (hybrid) the relational
\* store, whichever of them fail, and the flag leaves Initialized only in
\* such a step.
C28_EveryReleaseIsAttempted ==
  [][(last'.op = "close" /\ last'.wasInit) =>
       last'.calls = Releases(last'.inst)]_vars

\* The part that holds: the releases that are attempted are a prefix of that
\* order, and the flag is cleared only when all of them were attempted.
C28_ReleasesInOrder ==
  [][(last'.op = "close" /\ last'.wasInit) =>
       /\ last'.calls = SubSeq(Releases(last'.inst), 1, Len(last'.calls))
       /\ ~initialized'[last'.inst] => last'.calls = Releases(last'.inst)]_vars

\* C29: a saveDocument that rejects at the embedding step or at a step of
\* the vector store, after its insert into the documents table succeeded,
\* calls no delete: the row it inserted is in the documents table, there is
\* no vector under the row's id, and the call has rejected.
C29_FailedSaveLeavesTheRow ==
  [][\A i \in Inst :
       (/\ last'.op = "saveDocument" /\ last'.inst = i
        /\ Len(last'.calls) >= 3 /\ last'.calls[3] = "embed"
        /\ last'.collab # NoErr) =>
         /\ last'.err # NoErr
         /\ \A k \in 1..Len(last'.calls) : last'.calls[k] # "deleteDocument"
         /\ \E t \in DOMAIN rows'[i] : \E n \in DOMAIN rows'[i][t].docs :
              /\ t \in DOMAIN rows[i] => n \notin DOMAIN rows[i][t].docs
              /\ ~(t \in DOMAIN vfile'[i] /\ n \in DOMAIN vfile'[i][t])]_vars

\* A saveDocument has rejected at insertVector and left row 1 without a
\* vector.
C29_Witness ==
  /\ last.op = "saveDocument" /\ last.err # NoErr
  /\ Len(last.calls) = 5
  /\ \E t \in DOMAIN rows[last.inst] :
       /\ 1 \in DOMAIN rows[last.inst][t].docs
       /\ ~(t \in DOMAIN vfile[last.inst] /\ 1 \in DOMAIN vfile[last.inst][t])

\* The last call was a save or search of the plain module whose embedding
\* collaborator raised an error.
EmbeddingFailedInSaveOrSearch ==
  /\ LastIsPlain
  /\ last.op \in {"save", "search"}
  /\ last.calls = <<"embed">>
  /\ last.collab # NoErr

\* C30 as stated: a foreign error of the embedding collaborator during save
\* or search surfaces with kind EMBEDDING_FAILED or MODEL_LOAD_FAILED.
C30_KindOfTheCollaborator ==
  (EmbeddingFailedInSaveOrSearch /\ ~IsRAGError(last.collab)) =>
    last.err.kind \in {"EMBEDDING_FAILED", "MODEL_LOAD_FAILED"}

\* C30, amended: a foreign error of the embedding collaborator during save
\* or search surfaces with the kind of the operation, VECTOR_SAVE_FAILED for
\* save and SEARCH_FAILED for search, and the error as cause; the kinds of
\* the embedding subsystem surface only when the collaborator itself raised
\* a taxonomy error, which passes through as it is.
C30_KindOfTheOperationUnlessTaxonomy ==
  EmbeddingFailedInSaveOrSearch =>
    IF IsRAGError(last.collab)
      THEN last.err = last.collab
      ELSE /\ last.err.kind = (IF last.op = "save" THEN "VECTOR_SAVE_FAILED"
                               ELSE "SEARCH_FAILED")
           /\ last.err.cause = <<last.collab>>

\* A save whose embedding step raised a foreign error, surfaced as
\* VECTOR_SAVE_FAILED, and one whose embedding step raised EMBEDDING_FAILED.
C30_Witness ==
  /\ EmbeddingFailedInSaveOrSearch
  /\ last.op = "save"
  /\ \/ last.collab = Thrown /\ last.err.kind = "VECTOR_SAVE_FAILED"
     \/ last.collab.kind = "EMBEDDING_FAILED" /\ last.err.kind = "EMBEDDING_FAILED"

\* The collaborators of instance i are open: the engine has its model and
\* its context, the vector store its connection, and the relational store of
\* a hybrid module its pool.
Usable(i) ==
  /\ emb.initialized /\ emb.model /\ emb.ctx
  /\ vdb[i].initialized /\ vdb[i].db
  /\ ~IsPlain(i) => doc[i].initialized /\ doc[i].pool

\* C31: after any sequence of initialize() and close() calls of one
\* instance, with any collaborator call failing, an instance whose flag is
\* Initialized has its embedding engine, its vector store and (hybrid) its
\* relational store open.
C31_InitializedMeansUsable ==
  \A i \in Inst : initialized[i] => Usable(i)

\* The same as long as no close() of the instance has failed: initialize()
\* sets the flag only when every collaborator is open.
C31_InitializedMeansUsableUntilCloseFails ==
  [][\A i \in Inst :
       (initialized'[i] /\ ~(last'.op = "close" /\ last'.err # NoErr)
          /\ (initialized[i] => Usable(i))) => Usable(i)']_vars

\* ------------------------------------------------------------------------
\* Two plain modules in one process: they share the NoMicEmbeddingService
\* singleton and have each their own vector store.  The second module is
\* configured with the model path of the first or with another one.
\* ------------------------------------------------------------------------
InitPair ==
  /\ config \in {[i \in Inst |-> [variant |-> "plain",
                                  modelPath |-> IF i = "A" THEN "model.gguf" ELSE p,
                                  databasePath |-> IF i = "A" THEN "rag.db"
                                                  ELSE "rag2.db"]] :
                   p \in {"model.gguf", "other.gguf"}}
  /\ initialized = [i \in Inst |-> FALSE]
  /\ emb = EmbNew
  /\ vdb = [i \in Inst |-> VdbNew]
  /\ vfile = [i \in Inst |-> EmptyMap]
  /\ doc = [i \in Inst |-> DocNew]
  /\ rows = [i \in Inst |-> EmptyMap]
  /\ last = [op |-> "new", inst |-> "A", wasInit |-> FALSE, invalid |-> FALSE,
             noText |-> FALSE, err |-> NoErr, res |-> Undef, calls |-> <<>>,
             collab |-> NoErr, ret |-> Undef]
  /\ closedOnce = [i \in Inst |-> FALSE]
  /\ flight = EmptyBag
  /\ saved = [i \in Inst |-> EmptyMap]
  /\ asked = NoReq

\* initialize(), close(), and embed, save and search with one valid request
\* each, on either module.
NextPair ==
  \E i \in Inst :
    LET text == Str(<<"a">>)
        name == Str(<<"t">>)
        save == [text |-> text, id |-> Int2Num(0), tablename |-> name]
        search == [text |-> text, tablename |-> name, qty |-> Int2Num(1)]
    IN \/ \E r \in RAGInitialize(i) : Call(i, "initialize", NoReq, r)
       \/ \E r \in RAGClose(i) : Call(i, "close", NoReq, r)
       \/ \E r \in RAGEmbed(i, [text |-> text]) : Call(i, "embed", [text |-> text], r)
       \/ \E r \in RAGSave(i, save) : Call(i, "save", save, r)
       \/ \E r \in RAGSearch(i, search) : Call(i, "search", search, r)

SpecPair == InitPair /\ [][NextPair]_vars

\* Both modules are configured with the same model path.
SameModel == config["A"].modelPath = config["B"].modelPath

\* C32: with two modules Initialized on the same model path, a close() of
\* one that resolves leaves the engine usable for the other, which stays
\* Initialized: its later embed, save and search do not fail for that.
C32_CloseOfOneKeepsTheEngineForTheOther ==
  [][\A i \in Inst : \A j \in Inst \ {i} :
       (/\ SameModel
        /\ initialized[i] /\ Usable(i) /\ initialized[j]
        /\ last'.op = "close" /\ last'.inst = j /\ last'.err = NoErr) =>
         (initialized'[i] => Usable(i)')]_vars

\* The engine serves instance i with the model of its own configuration.
ServedByOwnModel(i) ==
  /\ emb.initialized /\ emb.model /\ emb.ctx
  /\ emb.modelPath = config[i].modelPath

\* C33: an initialize() of another module configured with a different
\* modelPath, successful or failed, leaves an Initialized module served by
\* the model at its own modelPath.
C33_OwnModelServes ==
  [][\A i \in Inst : \A j \in Inst \ {i} :
       (/\ config[i].modelPath # config[j].modelPath
        /\ initialized[i] /\ ServedByOwnModel(i)
        /\ last'.op = "initialize" /\ last'.inst = j) =>
         ServedByOwnModel(i)']_vars

\* The same for two modules configured with the same modelPath: the second
\* initialize() returns at the engine's own already-initialized check.
C33_OwnModelServesSamePath ==
  [][\A i \in Inst : \A j \in Inst \ {i} :
       (/\ SameModel
        /\ initialized[i] /\ ServedByOwnModel(i)
        /\ last'.op = "initialize" /\ last'.inst = j) =>
         ServedByOwnModel(i)']_vars

\* Instance i holds an open resource: the engine's model or context, the
\* connection of its vector store, the pool of its relational store.
HoldsResource(i) ==
  \/ emb.model \/ emb.ctx
  \/ vdb[i].db
  \/ doc[i].pool

\* C34: after an initialize() that failed and a close() of the same instance
\* that follows it, the instance holds no open resource.
C34_FailedInitializeLeavesNothingOpen ==
  [][(/\ last.op = "initialize" /\ last.err # NoErr
      /\ last'.op = "close" /\ last'.inst = last.inst /\ last'.err = NoErr) =>
       ~HoldsResource(last.inst)']_vars

\* The part that holds: an initialize() that fails at its first step, the
\* load of the engine, leaves the engine without model and context.
C34_FailedLoadLeavesNoEngine ==
  [][(/\ last'.op = "initialize" /\ last'.err # NoErr
      /\ last'.calls = <<"embedding.initialize">>
      /\ RootCause(last'.err) = DriverError) =>
       ~emb'.model /\ ~emb'.ctx]_vars

\* ------------------------------------------------------------------------
\* Overlapping calls of embed, save and search with close() and
\* initialize() of the module running between their steps.
\* ------------------------------------------------------------------------
\* rag.close(), from its first statement to its return, while calls are
\* awaiting their collaborators; the first close() of the module (a later
\* one meets the states of this one again).
CloseDuring(i) ==
  /\ IsPlain(i)
  /\ ~closedOnce[i]
  /\ \E r \in RAGClose(i) : Call(i, "close", NoReq, r)

NextFlightClose == NextFlight \/ \E i \in Inst : CloseDuring(i)

SpecFlightClose == InitFlight /\ [][NextFlightClose]_vars

\* The errors of the guards of the engine and of the vector store.
Released ==
  {RAGError(<<"Embedding service not initialized">>, "MODEL_LOAD_FAILED", <<>>),
   NotInitializedDb}

\* C35: an embed, save or search that passed the initialized gate with the
\* collaborators of the module open, and is in flight, does not fail because
\* the engine or the store was released under it by a close().
C35_CloseDoesNotReachCallsInFlight ==
  [][\A c \in InFlight :
       (c.open /\ flight' = Without(c) /\ last'.err # NoErr) =>
         RootCause(last'.collab) \notin Released]_vars

\* Without a close(), a call in flight never meets a released collaborator.
C35_NoCloseNoRelease ==
  [][\A c \in InFlight :
       (c.open /\ flight' = Without(c) /\ last'.err # NoErr
          /\ ~closedOnce[c.inst] /\ last.op # "close") =>
         RootCause(last'.collab) \notin Released]_vars

\* The string a request's text has become when validateText and then
\* sanitizeText have been applied to it: what embed is called with.
Handed(req) == sanitizeText(validateText(req.text, "text").val)

\* C36: when the text of a save or search request passes validation, the
\* string handed to the embedding collaborator is neither empty nor
\* whitespace only, and the collaborator's own empty-text check does not
\* reject the call.
C36_ValidatedTextIsNotEmpty ==
  [][(/\ last'.op \in {"save", "search"} /\ last'.wasInit
      /\ BadFields(asked) = {}) =>
       /\ Len(Trim(Handed(asked).v)) > 0
       /\ last'.collab #
            RAGError(<<"Text input cannot be empty">>, "INVALID_INPUT", <<>>)]_vars

\* The same for the texts that hold no control character.
C36_ValidatedTextIsNotEmptyWithoutControls ==
  [][(/\ last'.op \in {"save", "search"} /\ last'.wasInit
      /\ BadFields(asked) = {}
      /\ \A k \in 1..Len(asked.text.v) : asked.text.v[k] # Ctrl) =>
       /\ Len(Trim(Handed(asked).v)) > 0
       /\ last'.collab #
            RAGError(<<"Text input cannot be empty">>, "INVALID_INPUT", <<>>)]_vars

\* The (collection, id, vector) triples a vector file holds.
Pairs(file) ==
  UNION {{<<t, id, file[t][id]>> : id \in DOMAIN file[t]} : t \in DOMAIN file}

\* C37: a save of the plain module that rejects, at its gate, at validation,
\* at the embedding, at the creation of the table or at the insert, leaves
\* the (id, vector) pairs of every collection of every instance as they
\* were before the call.
C37_RejectedSaveChangesNoVector ==
  [][(/\ last'.op = "save" /\ IsPlain(last'.inst) /\ last'.err # NoErr) =>
       \A i \in Inst : Pairs(vfile'[i]) = Pairs(vfile[i])]_vars

\* A save that was rejected by the insert statement while the collection
\* held a vector.
C37_Witness ==
  /\ last.op = "save" /\ IsPlain(last.inst) /\ last.err # NoErr
  /\ last.calls = <<"embed", "createTableIfNotExists", "insertVector">>
  /\ last.collab.kind = "VECTOR_SAVE_FAILED"
  /\ Pairs(vfile[last.inst]) # {}

\* Every document of the table t of instance i has its vector in the vector
\* collection t, the embedding of its content: the table is as saveDocument
\* and deleteDocument calls that succeeded leave it.
AllEmbedded(i, t) ==
  /\ t \in DOMAIN rows[i] /\ t \in DOMAIN vfile[i]
  /\ \A n \in DOMAIN rows[i][t].docs :
       /\ n \in DOMAIN vfile[i][t]
       /\ vfile[i][t][n] = Embedding(rows[i][t].docs[n])

\* C38: on a table that saveDocument and deleteDocument calls that succeeded
\* have left with at least k documents, a searchDocuments with qty k that
\* resolves, resolves with k documents.
C38_SearchReturnsQtyLiveDocuments ==
  [][\A i \in Inst : \A req \in RankedSearchRequests :
       \A r \in HybridSearchDocuments(i, req) :
         (/\ last'.op = "searchDocuments" /\ last'.inst = i
          /\ last'.err = NoErr /\ r.err = NoErr /\ last'.res = r.res
          /\ AllEmbedded(i, req.tablename.v)
          /\ Cardinality(DOMAIN rows[i][req.tablename.v].docs) >= NumVal(req.qty))
           => Len(last'.res.v) = NumVal(req.qty)]_vars

\* The same on a table none of whose documents has been deleted: every
\* vector of the collection has its document.
C38_SearchReturnsQtyDocumentsWithoutDelete ==
  [][\A i \in Inst : \A req \in RankedSearchRequests :
       \A r \in HybridSearchDocuments(i, req) :
         (/\ last'.op = "searchDocuments" /\ last'.inst = i
          /\ last'.err = NoErr /\ r.err = NoErr /\ last'.res = r.res
          /\ AllEmbedded(i, req.tablename.v)
          /\ DOMAIN vfile[i][req.tablename.v] \subseteq
               DOMAIN rows[i][req.tablename.v].docs
          /\ Cardinality(DOMAIN rows[i][req.tablename.v].docs) >= NumVal(req.qty))
           => Len(last'.res.v) = NumVal(req.qty)]_vars

====
